---------------------------- MODULE Spec2Model ----------------------------
(***************************************************************************)
(* A model of the evaluation core of the Q# compiler (qsc_eval): the       *)
(* continuation-driven interpreter State::eval with its continuation,      *)
(* action, value and call stacks and its environment of scopes, run on a   *)
(* small package store of lowered programs.                                *)
(***************************************************************************)
EXTENDS Integers, Sequences, FiniteSets, TLC

(* Bounds of the model. *)
MaxLoop == 2          \* largest value of the loop limit P of the `loop` program

VARIABLES
  cont_stack,     \* State.cont_stack : Vec<Cont>
  action_stack,   \* State.action_stack : Vec<Action>
  vals,           \* State.vals : Vec<Value>
  package,        \* State.package : PackageId
  call_stack,     \* State.call_stack : CallStack
  current_span,   \* State.current_span : Span
  env,            \* Env(Vec<Scope>)
  out,            \* what the Receiver has been handed so far
  mode,           \* where the host is: "idle" (between calls of eval), "running", "done"
  step,           \* the StepAction of the running call of eval
  current_frame,  \* eval's local current_frame: the call-stack depth at entry
  breakpoints,    \* the breakpoints handed to eval
  result,         \* what the last call of eval returned
  last,           \* the last thing the driver loop did (history)
  trace,          \* the expressions dispatched so far, in order, each with the
                  \* length of the value stack it was dispatched at (history)
  calls,          \* what the caller's state was at each call still running (history)
  prog,           \* the entry the State was loaded with
  params          \* the literals of the entry program

vars == <<cont_stack, action_stack, vals, package, call_stack, current_span, env,
          out, mode, step, current_frame, breakpoints, result, last, trace, calls, prog, params>>

---------------------------------------------------------------------------
(* Stacks: a Vec with push and pop at its end. *)
Top(s) == s[Len(s)]
Pop(s) == SubSeq(s, 1, Len(s) - 1)
Rev(s) == [i \in 1..Len(s) |-> s[Len(s) + 1 - i]]

RECURSIVE Flatten(_)
Flatten(ss) == IF ss = <<>> THEN <<>> ELSE Head(ss) \o Flatten(Tail(ss))

(* Span { lo, hi } and its Default. *)
Sp(lo, hi) == [lo |-> lo, hi |-> hi]
SpanDefault == Sp(0, 0)

(* Value: a tagged sum.  An Array is an Rc<Vec<Value>>: rc names the allocation,  *)
(* so that two values with the same rc are clones of one Rc.  Option<i64> is a    *)
(* sequence of length at most one.                                                *)
IntV(i) == [t |-> "Int", v |-> i, rc |-> 0]
BoolV(b) == [t |-> "Bool", v |-> b, rc |-> 0]
StrV(s) == [t |-> "String", v |-> s, rc |-> 0]
TupV(items) == [t |-> "Tuple", v |-> items, rc |-> 0]
UnitV == TupV(<<>>)
ArrV(rc, items) == [t |-> "Array", v |-> items, rc |-> rc]
RangeV(start, stp, end) == [t |-> "Range", v |-> [start |-> start, step |-> stp, end |-> end], rc |-> 0]
FunctorAppDefault == [adjoint |-> FALSE, controlled |-> 0]
GlobalV(id, functor) == [t |-> "Global", v |-> [id |-> id, functor |-> functor, fixed_args |-> <<>>], rc |-> 0]
ClosureV(fixed_args, id, functor) ==
  [t |-> "Closure", v |-> [id |-> id, functor |-> functor, fixed_args |-> fixed_args], rc |-> 0]
DEFAULT_RANGE_STEP == 1
BigIntV(i) == [t |-> "BigInt", v |-> i, rc |-> 0]
(* A Double is NaN, an infinity, or a finite value: a signed fraction in lowest *)
(* terms, zero with its sign.                                                  *)
DoubleV(c, neg, num, den) ==
  [t |-> "Double", v |-> [c |-> c, neg |-> neg, num |-> num, den |-> den], rc |-> 0]
NaN == DoubleV("nan", FALSE, 0, 1)
Inf(neg) == DoubleV("inf", neg, 0, 1)
RECURSIVE GCD(_, _)
GCD(a, b) == IF b = 0 THEN a ELSE GCD(b, a % b)
Fin(neg, num, den) == DoubleV("fin", neg, num \div GCD(num, den), den \div GCD(num, den))

(* The Rc allocations a value holds a strong reference to, with multiplicity. *)
RECURSIVE RcsOfVal(_)
RcsOfVal(val) ==
  CASE val.t = "Array" -> <<val.rc>> \o Flatten([i \in 1..Len(val.v) |-> RcsOfVal(val.v[i])])
    [] val.t = "Tuple" -> Flatten([i \in 1..Len(val.v) |-> RcsOfVal(val.v[i])])
    [] val.t = "Closure" -> Flatten([i \in 1..Len(val.v.fixed_args) |-> RcsOfVal(val.v.fixed_args[i])])
    [] OTHER -> <<>>

(* Structural equality of values: Arrays and Tuples elementwise, whatever the allocation. *)
RECURSIVE ValEq(_, _)
ValEq(a, b) ==
  /\ a.t = b.t
  /\ IF a.t \in {"Array", "Tuple"}
       THEN Len(a.v) = Len(b.v) /\ \A i \in 1..Len(a.v) : ValEq(a.v[i], b.v[i])
       ELSE a.v = b.v

---------------------------------------------------------------------------
(* The package store (PackageStoreLookup): two packages of lowered programs.  *)
(* Package 0 holds the callables Add1, Ret and Outer and the entry programs,  *)
(* package 1 the library callable Div.  Spans are source offsets; a statement *)
(* of generated code has the default span.  Source of package 0:              *)
(*   function Add1(x : Int) : Int { x + 1 }                                   *)
(*   function Ret(c : Bool) : Int { if c { { return 10; } } 7 + (return 20) } *)
(*   function Outer(x : Int) : Int { let y = Add1(x); Lib.Div(y) }            *)
(*   arith      (Expr 20)  { let x = P; (x + 4 * 5) / x }                     *)
(*   call       (Expr 29)  1 + Ret(B1)                                        *)
(*   nested     (Stmt 10)  Outer(P);                                          *)
(*   logic      (Expr 37)  (B1 and B2, B1 or B2)                              *)
(*   loop       (Expr 44)  { mutable i = 0; while i < P { set i += 1; } i }   *)
(*   arrays     (Expr 54)  { mutable a = [1, 2]; let b = a; set a w/= 0 <- 9; *)
(*                           set a += [3]; set a w/= P <- 5; (a, b) }         *)
(*   selfappend (Expr 74)  { mutable a = [P]; set a += a; a }                 *)
(*   topret     (Expr 81)  { return 4; return 3; }                            *)
(*   order      (Expr 86)  ([1, 2] w/ 0 <- 5, [7, size = 2], [1, 2, 3][0..2..P]) *)
(*   operation Op(x : Int) : Unit is Adj + Ctl { body ... { 100; }              *)
(*     adjoint ... { 200; } controlled (cs, ...) { 300; }                      *)
(*     controlled adjoint (cs, ...) { 400; } }                                 *)
(*   functors   (Expr 109) (Op(1), Adjoint Op(1), Adjoint Adjoint Op(1),       *)
(*                           Controlled Op([], 1), Controlled Adjoint Op([], 1), *)
(*                           Adjoint Controlled Op([], 1),                     *)
(*                           Controlled Controlled Op([], ([], 1)),            *)
(*                           Adjoint Controlled Adjoint Op([], 1))             *)
(*   modulo     (Expr 159) 7 % P                                              *)
(*   function Outer2(x : Int) : Int { Lib.Div(Add1(x)) }                      *)
(*   callarg    (Expr 167) Outer2(P)                                          *)
(*   operation Lambda((k, y) : (Int, Int)) : Unit is Adj + Ctl, with the      *)
(*     specializations of Op: what a lambda with one captured variable is     *)
(*     lifted to                                                              *)
(*   operation Emit(x : Int) : Unit { body intrinsic; }                       *)
(*   effects    (Expr 174) { Emit(1); let y = Outer(P); Emit(y); y }          *)
(* and of package 1:                                                          *)
(*   function Div(x : Int) : Int { 6 / x }                                    *)
Exprs0 ==
  <<
    (* expr 1 *) [kind |-> "BinOp", span |-> Sp(6, 11), op |-> "Add", lhs |-> 2, rhs |-> 3],
    (* expr 2 *) [kind |-> "Var", span |-> Sp(7, 8), res |-> [k |-> "Local", id |-> 1, package |-> <<>>, item |-> 0], ty |-> "Int"],
    (* expr 3 *) [kind |-> "Lit", span |-> Sp(9, 10), val |-> IntV(1)],
    (* expr 4 *) [kind |-> "If", span |-> Sp(20, 39), cond |-> 5, then |-> 6, else |-> <<>>],
    (* expr 5 *) [kind |-> "Var", span |-> Sp(21, 22), res |-> [k |-> "Local", id |-> 2, package |-> <<>>, item |-> 0], ty |-> "Bool"],
    (* expr 6 *) [kind |-> "Block", span |-> Sp(23, 38), block |-> 3],
    (* expr 7 *) [kind |-> "Block", span |-> Sp(26, 35), block |-> 4],
    (* expr 8 *) [kind |-> "Return", span |-> Sp(29, 32), expr |-> 9],
    (* expr 9 *) [kind |-> "Lit", span |-> Sp(30, 31), val |-> IntV(10)],
    (* expr 10 *) [kind |-> "BinOp", span |-> Sp(42, 49), op |-> "Add", lhs |-> 11, rhs |-> 12],
    (* expr 11 *) [kind |-> "Lit", span |-> Sp(43, 44), val |-> IntV(7)],
    (* expr 12 *) [kind |-> "Return", span |-> Sp(45, 48), expr |-> 13],
    (* expr 13 *) [kind |-> "Lit", span |-> Sp(46, 47), val |-> IntV(20)],
    (* expr 14 *) [kind |-> "Call", span |-> Sp(60, 65), callee |-> 15, args |-> 16],
    (* expr 15 *) [kind |-> "Var", span |-> Sp(61, 62), res |-> [k |-> "Item", id |-> 0, package |-> <<>>, item |-> 1], ty |-> "Arrow"],
    (* expr 16 *) [kind |-> "Var", span |-> Sp(63, 64), res |-> [k |-> "Local", id |-> 3, package |-> <<>>, item |-> 0], ty |-> "Int"],
    (* expr 17 *) [kind |-> "Call", span |-> Sp(68, 73), callee |-> 18, args |-> 19],
    (* expr 18 *) [kind |-> "Var", span |-> Sp(69, 70), res |-> [k |-> "Item", id |-> 0, package |-> <<1>>, item |-> 1], ty |-> "Arrow"],
    (* expr 19 *) [kind |-> "Var", span |-> Sp(71, 72), res |-> [k |-> "Local", id |-> 4, package |-> <<>>, item |-> 0], ty |-> "Int"],
    (* expr 20 *) [kind |-> "Block", span |-> Sp(101, 126), block |-> 6],
    (* expr 21 *) [kind |-> "Lit", span |-> Sp(106, 107), val |-> IntV(params.P)],
    (* expr 22 *) [kind |-> "BinOp", span |-> Sp(110, 123), op |-> "Div", lhs |-> 23, rhs |-> 28],
    (* expr 23 *) [kind |-> "BinOp", span |-> Sp(111, 120), op |-> "Add", lhs |-> 24, rhs |-> 25],
    (* expr 24 *) [kind |-> "Var", span |-> Sp(112, 113), res |-> [k |-> "Local", id |-> 5, package |-> <<>>, item |-> 0], ty |-> "Int"],
    (* expr 25 *) [kind |-> "BinOp", span |-> Sp(114, 119), op |-> "Mul", lhs |-> 26, rhs |-> 27],
    (* expr 26 *) [kind |-> "Lit", span |-> Sp(115, 116), val |-> IntV(4)],
    (* expr 27 *) [kind |-> "Lit", span |-> Sp(117, 118), val |-> IntV(5)],
    (* expr 28 *) [kind |-> "Var", span |-> Sp(121, 122), res |-> [k |-> "Local", id |-> 5, package |-> <<>>, item |-> 0], ty |-> "Int"],
    (* expr 29 *) [kind |-> "BinOp", span |-> Sp(201, 210), op |-> "Add", lhs |-> 30, rhs |-> 31],
    (* expr 30 *) [kind |-> "Lit", span |-> Sp(202, 203), val |-> IntV(1)],
    (* expr 31 *) [kind |-> "Call", span |-> Sp(204, 209), callee |-> 32, args |-> 33],
    (* expr 32 *) [kind |-> "Var", span |-> Sp(205, 206), res |-> [k |-> "Item", id |-> 0, package |-> <<>>, item |-> 2], ty |-> "Arrow"],
    (* expr 33 *) [kind |-> "Lit", span |-> Sp(207, 208), val |-> BoolV(params.B1)],
    (* expr 34 *) [kind |-> "Call", span |-> Sp(302, 307), callee |-> 35, args |-> 36],
    (* expr 35 *) [kind |-> "Var", span |-> Sp(303, 304), res |-> [k |-> "Item", id |-> 0, package |-> <<>>, item |-> 3], ty |-> "Arrow"],
    (* expr 36 *) [kind |-> "Lit", span |-> Sp(305, 306), val |-> IntV(params.P)],
    (* expr 37 *) [kind |-> "Tuple", span |-> Sp(401, 414), items |-> <<38, 41>>],
    (* expr 38 *) [kind |-> "BinOp", span |-> Sp(402, 407), op |-> "AndL", lhs |-> 39, rhs |-> 40],
    (* expr 39 *) [kind |-> "Lit", span |-> Sp(403, 404), val |-> BoolV(params.B1)],
    (* expr 40 *) [kind |-> "Lit", span |-> Sp(405, 406), val |-> BoolV(params.B2)],
    (* expr 41 *) [kind |-> "BinOp", span |-> Sp(408, 413), op |-> "OrL", lhs |-> 42, rhs |-> 43],
    (* expr 42 *) [kind |-> "Lit", span |-> Sp(409, 410), val |-> BoolV(params.B1)],
    (* expr 43 *) [kind |-> "Lit", span |-> Sp(411, 412), val |-> BoolV(params.B2)],
    (* expr 44 *) [kind |-> "Block", span |-> Sp(501, 534), block |-> 7],
    (* expr 45 *) [kind |-> "Lit", span |-> Sp(506, 507), val |-> IntV(0)],
    (* expr 46 *) [kind |-> "While", span |-> Sp(510, 527), cond |-> 47, block |-> 8],
    (* expr 47 *) [kind |-> "BinOp", span |-> Sp(511, 516), op |-> "Lt", lhs |-> 48, rhs |-> 49],
    (* expr 48 *) [kind |-> "Var", span |-> Sp(512, 513), res |-> [k |-> "Local", id |-> 6, package |-> <<>>, item |-> 0], ty |-> "Int"],
    (* expr 49 *) [kind |-> "Lit", span |-> Sp(514, 515), val |-> IntV(params.P)],
    (* expr 50 *) [kind |-> "AssignOp", span |-> Sp(519, 524), op |-> "Add", lhs |-> 51, rhs |-> 52],
    (* expr 51 *) [kind |-> "Var", span |-> Sp(520, 521), res |-> [k |-> "Local", id |-> 6, package |-> <<>>, item |-> 0], ty |-> "Int"],
    (* expr 52 *) [kind |-> "Lit", span |-> Sp(522, 523), val |-> IntV(1)],
    (* expr 53 *) [kind |-> "Var", span |-> Sp(530, 531), res |-> [k |-> "Local", id |-> 6, package |-> <<>>, item |-> 0], ty |-> "Int"],
    (* expr 54 *) [kind |-> "Block", span |-> Sp(601, 658), block |-> 9],
    (* expr 55 *) [kind |-> "Array", span |-> Sp(606, 611), items |-> <<56, 57>>],
    (* expr 56 *) [kind |-> "Lit", span |-> Sp(607, 608), val |-> IntV(1)],
    (* expr 57 *) [kind |-> "Lit", span |-> Sp(609, 610), val |-> IntV(2)],
    (* expr 58 *) [kind |-> "Var", span |-> Sp(616, 617), res |-> [k |-> "Local", id |-> 7, package |-> <<>>, item |-> 0], ty |-> "Array"],
    (* expr 59 *) [kind |-> "AssignIndex", span |-> Sp(620, 627), lhs |-> 60, mid |-> 61, rhs |-> 62],
    (* expr 60 *) [kind |-> "Var", span |-> Sp(621, 622), res |-> [k |-> "Local", id |-> 7, package |-> <<>>, item |-> 0], ty |-> "Array"],
    (* expr 61 *) [kind |-> "Lit", span |-> Sp(623, 624), val |-> IntV(0)],
    (* expr 62 *) [kind |-> "Lit", span |-> Sp(625, 626), val |-> IntV(9)],
    (* expr 63 *) [kind |-> "AssignOp", span |-> Sp(630, 637), op |-> "Add", lhs |-> 64, rhs |-> 65],
    (* expr 64 *) [kind |-> "Var", span |-> Sp(631, 632), res |-> [k |-> "Local", id |-> 7, package |-> <<>>, item |-> 0], ty |-> "Array"],
    (* expr 65 *) [kind |-> "Array", span |-> Sp(633, 636), items |-> <<66>>],
    (* expr 66 *) [kind |-> "Lit", span |-> Sp(634, 635), val |-> IntV(3)],
    (* expr 67 *) [kind |-> "AssignIndex", span |-> Sp(640, 647), lhs |-> 68, mid |-> 69, rhs |-> 70],
    (* expr 68 *) [kind |-> "Var", span |-> Sp(641, 642), res |-> [k |-> "Local", id |-> 7, package |-> <<>>, item |-> 0], ty |-> "Array"],
    (* expr 69 *) [kind |-> "Lit", span |-> Sp(643, 644), val |-> IntV(params.P)],
    (* expr 70 *) [kind |-> "Lit", span |-> Sp(645, 646), val |-> IntV(5)],
    (* expr 71 *) [kind |-> "Tuple", span |-> Sp(650, 655), items |-> <<72, 73>>],
    (* expr 72 *) [kind |-> "Var", span |-> Sp(651, 652), res |-> [k |-> "Local", id |-> 7, package |-> <<>>, item |-> 0], ty |-> "Array"],
    (* expr 73 *) [kind |-> "Var", span |-> Sp(653, 654), res |-> [k |-> "Local", id |-> 8, package |-> <<>>, item |-> 0], ty |-> "Array"],
    (* expr 74 *) [kind |-> "Block", span |-> Sp(701, 724), block |-> 10],
    (* expr 75 *) [kind |-> "Array", span |-> Sp(706, 709), items |-> <<76>>],
    (* expr 76 *) [kind |-> "Lit", span |-> Sp(707, 708), val |-> IntV(params.P)],
    (* expr 77 *) [kind |-> "AssignOp", span |-> Sp(712, 717), op |-> "Add", lhs |-> 78, rhs |-> 79],
    (* expr 78 *) [kind |-> "Var", span |-> Sp(713, 714), res |-> [k |-> "Local", id |-> 9, package |-> <<>>, item |-> 0], ty |-> "Array"],
    (* expr 79 *) [kind |-> "Var", span |-> Sp(715, 716), res |-> [k |-> "Local", id |-> 9, package |-> <<>>, item |-> 0], ty |-> "Array"],
    (* expr 80 *) [kind |-> "Var", span |-> Sp(720, 721), res |-> [k |-> "Local", id |-> 9, package |-> <<>>, item |-> 0], ty |-> "Array"],
    (* expr 81 *) [kind |-> "Block", span |-> Sp(801, 816), block |-> 11],
    (* expr 82 *) [kind |-> "Return", span |-> Sp(804, 807), expr |-> 83],
    (* expr 83 *) [kind |-> "Lit", span |-> Sp(805, 806), val |-> IntV(4)],
    (* expr 84 *) [kind |-> "Return", span |-> Sp(810, 813), expr |-> 85],
    (* expr 85 *) [kind |-> "Lit", span |-> Sp(811, 812), val |-> IntV(3)],
    (* expr 86 *) [kind |-> "Tuple", span |-> Sp(901, 938), items |-> <<87, 93, 96>>],
    (* expr 87 *) [kind |-> "UpdateIndex", span |-> Sp(902, 913), lhs |-> 88, mid |-> 91, rhs |-> 92],
    (* expr 88 *) [kind |-> "Array", span |-> Sp(903, 908), items |-> <<89, 90>>],
    (* expr 89 *) [kind |-> "Lit", span |-> Sp(904, 905), val |-> IntV(1)],
    (* expr 90 *) [kind |-> "Lit", span |-> Sp(906, 907), val |-> IntV(2)],
    (* expr 91 *) [kind |-> "Lit", span |-> Sp(909, 910), val |-> IntV(0)],
    (* expr 92 *) [kind |-> "Lit", span |-> Sp(911, 912), val |-> IntV(5)],
    (* expr 93 *) [kind |-> "ArrayRepeat", span |-> Sp(914, 919), item |-> 94, size |-> 95],
    (* expr 94 *) [kind |-> "Lit", span |-> Sp(915, 916), val |-> IntV(7)],
    (* expr 95 *) [kind |-> "Lit", span |-> Sp(917, 918), val |-> IntV(2)],
    (* expr 96 *) [kind |-> "Index", span |-> Sp(920, 937), arr |-> 97, index |-> 101],
    (* expr 97 *) [kind |-> "Array", span |-> Sp(921, 928), items |-> <<98, 99, 100>>],
    (* expr 98 *) [kind |-> "Lit", span |-> Sp(922, 923), val |-> IntV(1)],
    (* expr 99 *) [kind |-> "Lit", span |-> Sp(924, 925), val |-> IntV(2)],
    (* expr 100 *) [kind |-> "Lit", span |-> Sp(926, 927), val |-> IntV(3)],
    (* expr 101 *) [kind |-> "Range", span |-> Sp(929, 936), start |-> <<102>>, step |-> <<103>>, end |-> <<104>>],
    (* expr 102 *) [kind |-> "Lit", span |-> Sp(930, 931), val |-> IntV(0)],
    (* expr 103 *) [kind |-> "Lit", span |-> Sp(932, 933), val |-> IntV(2)],
    (* expr 104 *) [kind |-> "Lit", span |-> Sp(934, 935), val |-> IntV(params.P)],
    (* expr 105 *) [kind |-> "Lit", span |-> Sp(1006, 1007), val |-> IntV(100)],
    (* expr 106 *) [kind |-> "Lit", span |-> Sp(1012, 1013), val |-> IntV(200)],
    (* expr 107 *) [kind |-> "Lit", span |-> Sp(1020, 1021), val |-> IntV(300)],
    (* expr 108 *) [kind |-> "Lit", span |-> Sp(1028, 1029), val |-> IntV(400)],
    (* expr 109 *) [kind |-> "Tuple", span |-> Sp(1101, 1200), items |-> <<110, 113, 117, 122, 128, 135, 142, 151>>],
    (* expr 110 *) [kind |-> "Call", span |-> Sp(1102, 1107), callee |-> 111, args |-> 112],
    (* expr 111 *) [kind |-> "Var", span |-> Sp(1103, 1104), res |-> [k |-> "Item", id |-> 0, package |-> <<>>, item |-> 4], ty |-> "Arrow"],
    (* expr 112 *) [kind |-> "Lit", span |-> Sp(1105, 1106), val |-> IntV(1)],
    (* expr 113 *) [kind |-> "Call", span |-> Sp(1108, 1115), callee |-> 114, args |-> 116],
    (* expr 114 *) [kind |-> "UnOp", span |-> Sp(1109, 1112), op |-> "Adj", expr |-> 115],
    (* expr 115 *) [kind |-> "Var", span |-> Sp(1110, 1111), res |-> [k |-> "Item", id |-> 0, package |-> <<>>, item |-> 4], ty |-> "Arrow"],
    (* expr 116 *) [kind |-> "Lit", span |-> Sp(1113, 1114), val |-> IntV(1)],
    (* expr 117 *) [kind |-> "Call", span |-> Sp(1116, 1125), callee |-> 118, args |-> 121],
    (* expr 118 *) [kind |-> "UnOp", span |-> Sp(1117, 1122), op |-> "Adj", expr |-> 119],
    (* expr 119 *) [kind |-> "UnOp", span |-> Sp(1118, 1121), op |-> "Adj", expr |-> 120],
    (* expr 120 *) [kind |-> "Var", span |-> Sp(1119, 1120), res |-> [k |-> "Item", id |-> 0, package |-> <<>>, item |-> 4], ty |-> "Arrow"],
    (* expr 121 *) [kind |-> "Lit", span |-> Sp(1123, 1124), val |-> IntV(1)],
    (* expr 122 *) [kind |-> "Call", span |-> Sp(1126, 1137), callee |-> 123, args |-> 125],
    (* expr 123 *) [kind |-> "UnOp", span |-> Sp(1127, 1130), op |-> "Ctl", expr |-> 124],
    (* expr 124 *) [kind |-> "Var", span |-> Sp(1128, 1129), res |-> [k |-> "Item", id |-> 0, package |-> <<>>, item |-> 4], ty |-> "Arrow"],
    (* expr 125 *) [kind |-> "Tuple", span |-> Sp(1131, 1136), items |-> <<126, 127>>],
    (* expr 126 *) [kind |-> "Array", span |-> Sp(1132, 1133), items |-> <<>>],
    (* expr 127 *) [kind |-> "Lit", span |-> Sp(1134, 1135), val |-> IntV(1)],
    (* expr 128 *) [kind |-> "Call", span |-> Sp(1138, 1151), callee |-> 129, args |-> 132],
    (* expr 129 *) [kind |-> "UnOp", span |-> Sp(1139, 1144), op |-> "Ctl", expr |-> 130],
    (* expr 130 *) [kind |-> "UnOp", span |-> Sp(1140, 1143), op |-> "Adj", expr |-> 131],
    (* expr 131 *) [kind |-> "Var", span |-> Sp(1141, 1142), res |-> [k |-> "Item", id |-> 0, package |-> <<>>, item |-> 4], ty |-> "Arrow"],
    (* expr 132 *) [kind |-> "Tuple", span |-> Sp(1145, 1150), items |-> <<133, 134>>],
    (* expr 133 *) [kind |-> "Array", span |-> Sp(1146, 1147), items |-> <<>>],
    (* expr 134 *) [kind |-> "Lit", span |-> Sp(1148, 1149), val |-> IntV(1)],
    (* expr 135 *) [kind |-> "Call", span |-> Sp(1152, 1165), callee |-> 136, args |-> 139],
    (* expr 136 *) [kind |-> "UnOp", span |-> Sp(1153, 1158), op |-> "Adj", expr |-> 137],
    (* expr 137 *) [kind |-> "UnOp", span |-> Sp(1154, 1157), op |-> "Ctl", expr |-> 138],
    (* expr 138 *) [kind |-> "Var", span |-> Sp(1155, 1156), res |-> [k |-> "Item", id |-> 0, package |-> <<>>, item |-> 4], ty |-> "Arrow"],
    (* expr 139 *) [kind |-> "Tuple", span |-> Sp(1159, 1164), items |-> <<140, 141>>],
    (* expr 140 *) [kind |-> "Array", span |-> Sp(1160, 1161), items |-> <<>>],
    (* expr 141 *) [kind |-> "Lit", span |-> Sp(1162, 1163), val |-> IntV(1)],
    (* expr 142 *) [kind |-> "Call", span |-> Sp(1166, 1183), callee |-> 143, args |-> 146],
    (* expr 143 *) [kind |-> "UnOp", span |-> Sp(1167, 1172), op |-> "Ctl", expr |-> 144],
    (* expr 144 *) [kind |-> "UnOp", span |-> Sp(1168, 1171), op |-> "Ctl", expr |-> 145],
    (* expr 145 *) [kind |-> "Var", span |-> Sp(1169, 1170), res |-> [k |-> "Item", id |-> 0, package |-> <<>>, item |-> 4], ty |-> "Arrow"],
    (* expr 146 *) [kind |-> "Tuple", span |-> Sp(1173, 1182), items |-> <<147, 148>>],
    (* expr 147 *) [kind |-> "Array", span |-> Sp(1174, 1175), items |-> <<>>],
    (* expr 148 *) [kind |-> "Tuple", span |-> Sp(1176, 1181), items |-> <<149, 150>>],
    (* expr 149 *) [kind |-> "Array", span |-> Sp(1177, 1178), items |-> <<>>],
    (* expr 150 *) [kind |-> "Lit", span |-> Sp(1179, 1180), val |-> IntV(1)],
    (* expr 151 *) [kind |-> "Call", span |-> Sp(1184, 1199), callee |-> 152, args |-> 156],
    (* expr 152 *) [kind |-> "UnOp", span |-> Sp(1185, 1192), op |-> "Adj", expr |-> 153],
    (* expr 153 *) [kind |-> "UnOp", span |-> Sp(1186, 1191), op |-> "Ctl", expr |-> 154],
    (* expr 154 *) [kind |-> "UnOp", span |-> Sp(1187, 1190), op |-> "Adj", expr |-> 155],
    (* expr 155 *) [kind |-> "Var", span |-> Sp(1188, 1189), res |-> [k |-> "Item", id |-> 0, package |-> <<>>, item |-> 4], ty |-> "Arrow"],
    (* expr 156 *) [kind |-> "Tuple", span |-> Sp(1193, 1198), items |-> <<157, 158>>],
    (* expr 157 *) [kind |-> "Array", span |-> Sp(1194, 1195), items |-> <<>>],
    (* expr 158 *) [kind |-> "Lit", span |-> Sp(1196, 1197), val |-> IntV(1)],
    (* expr 159 *) [kind |-> "BinOp", span |-> Sp(1301, 1306), op |-> "Mod", lhs |-> 160, rhs |-> 161],
    (* expr 160 *) [kind |-> "Lit", span |-> Sp(1302, 1303), val |-> IntV(7)],
    (* expr 161 *) [kind |-> "Lit", span |-> Sp(1304, 1305), val |-> IntV(params.P)],
    (* expr 162 *) [kind |-> "Call", span |-> Sp(1406, 1415), callee |-> 163, args |-> 164],
    (* expr 163 *) [kind |-> "Var", span |-> Sp(1407, 1408), res |-> [k |-> "Item", id |-> 0, package |-> <<1>>, item |-> 1], ty |-> "Arrow"],
    (* expr 164 *) [kind |-> "Call", span |-> Sp(1409, 1414), callee |-> 165, args |-> 166],
    (* expr 165 *) [kind |-> "Var", span |-> Sp(1410, 1411), res |-> [k |-> "Item", id |-> 0, package |-> <<>>, item |-> 1], ty |-> "Arrow"],
    (* expr 166 *) [kind |-> "Var", span |-> Sp(1412, 1413), res |-> [k |-> "Local", id |-> 13, package |-> <<>>, item |-> 0], ty |-> "Int"],
    (* expr 167 *) [kind |-> "Call", span |-> Sp(1501, 1506), callee |-> 168, args |-> 169],
    (* expr 168 *) [kind |-> "Var", span |-> Sp(1502, 1503), res |-> [k |-> "Item", id |-> 0, package |-> <<>>, item |-> 5], ty |-> "Arrow"],
    (* expr 169 *) [kind |-> "Lit", span |-> Sp(1504, 1505), val |-> IntV(params.P)],
    (* expr 170 *) [kind |-> "Lit", span |-> Sp(1609, 1610), val |-> IntV(500)],
    (* expr 171 *) [kind |-> "Lit", span |-> Sp(1615, 1616), val |-> IntV(600)],
    (* expr 172 *) [kind |-> "Lit", span |-> Sp(1623, 1624), val |-> IntV(700)],
    (* expr 173 *) [kind |-> "Lit", span |-> Sp(1631, 1632), val |-> IntV(800)],
    (* expr 174 *) [kind |-> "Block", span |-> Sp(1801, 1834), block |-> 21],
    (* expr 175 *) [kind |-> "Call", span |-> Sp(1804, 1809), callee |-> 176, args |-> 177],
    (* expr 176 *) [kind |-> "Var", span |-> Sp(1805, 1806), res |-> [k |-> "Item", id |-> 0, package |-> <<>>, item |-> 7], ty |-> "Arrow"],
    (* expr 177 *) [kind |-> "Lit", span |-> Sp(1807, 1808), val |-> IntV(1)],
    (* expr 178 *) [kind |-> "Call", span |-> Sp(1814, 1819), callee |-> 179, args |-> 180],
    (* expr 179 *) [kind |-> "Var", span |-> Sp(1815, 1816), res |-> [k |-> "Item", id |-> 0, package |-> <<>>, item |-> 3], ty |-> "Arrow"],
    (* expr 180 *) [kind |-> "Lit", span |-> Sp(1817, 1818), val |-> IntV(params.P)],
    (* expr 181 *) [kind |-> "Call", span |-> Sp(1822, 1827), callee |-> 182, args |-> 183],
    (* expr 182 *) [kind |-> "Var", span |-> Sp(1823, 1824), res |-> [k |-> "Item", id |-> 0, package |-> <<>>, item |-> 7], ty |-> "Arrow"],
    (* expr 183 *) [kind |-> "Var", span |-> Sp(1825, 1826), res |-> [k |-> "Local", id |-> 19, package |-> <<>>, item |-> 0], ty |-> "Int"],
    (* expr 184 *) [kind |-> "Var", span |-> Sp(1830, 1831), res |-> [k |-> "Local", id |-> 19, package |-> <<>>, item |-> 0], ty |-> "Int"]
  >>

Stmts0 ==
  <<
    (* stmt 1 *) [kind |-> "Expr", span |-> SpanDefault, expr |-> 1],
    (* stmt 2 *) [kind |-> "Expr", span |-> Sp(19, 40), expr |-> 4],
    (* stmt 3 *) [kind |-> "Expr", span |-> Sp(25, 36), expr |-> 7],
    (* stmt 4 *) [kind |-> "Semi", span |-> Sp(28, 33), expr |-> 8],
    (* stmt 5 *) [kind |-> "Expr", span |-> Sp(41, 50), expr |-> 10],
    (* stmt 6 *) [kind |-> "Local", span |-> Sp(57, 66), mutability |-> "Immutable", pat |-> 4, expr |-> 14],
    (* stmt 7 *) [kind |-> "Expr", span |-> Sp(67, 74), expr |-> 17],
    (* stmt 8 *) [kind |-> "Local", span |-> Sp(103, 108), mutability |-> "Immutable", pat |-> 5, expr |-> 21],
    (* stmt 9 *) [kind |-> "Expr", span |-> Sp(109, 124), expr |-> 22],
    (* stmt 10 *) [kind |-> "Semi", span |-> Sp(301, 308), expr |-> 34],
    (* stmt 11 *) [kind |-> "Local", span |-> Sp(503, 508), mutability |-> "Mutable", pat |-> 6, expr |-> 45],
    (* stmt 12 *) [kind |-> "Expr", span |-> Sp(509, 528), expr |-> 46],
    (* stmt 13 *) [kind |-> "Semi", span |-> Sp(518, 525), expr |-> 50],
    (* stmt 14 *) [kind |-> "Expr", span |-> Sp(529, 532), expr |-> 53],
    (* stmt 15 *) [kind |-> "Local", span |-> Sp(603, 612), mutability |-> "Mutable", pat |-> 7, expr |-> 55],
    (* stmt 16 *) [kind |-> "Local", span |-> Sp(613, 618), mutability |-> "Immutable", pat |-> 8, expr |-> 58],
    (* stmt 17 *) [kind |-> "Semi", span |-> Sp(619, 628), expr |-> 59],
    (* stmt 18 *) [kind |-> "Semi", span |-> Sp(629, 638), expr |-> 63],
    (* stmt 19 *) [kind |-> "Semi", span |-> Sp(639, 648), expr |-> 67],
    (* stmt 20 *) [kind |-> "Expr", span |-> Sp(649, 656), expr |-> 71],
    (* stmt 21 *) [kind |-> "Local", span |-> Sp(703, 710), mutability |-> "Mutable", pat |-> 9, expr |-> 75],
    (* stmt 22 *) [kind |-> "Semi", span |-> Sp(711, 718), expr |-> 77],
    (* stmt 23 *) [kind |-> "Expr", span |-> Sp(719, 722), expr |-> 80],
    (* stmt 24 *) [kind |-> "Semi", span |-> Sp(803, 808), expr |-> 82],
    (* stmt 25 *) [kind |-> "Semi", span |-> Sp(809, 814), expr |-> 84],
    (* stmt 26 *) [kind |-> "Semi", span |-> Sp(1005, 1008), expr |-> 105],
    (* stmt 27 *) [kind |-> "Semi", span |-> Sp(1011, 1014), expr |-> 106],
    (* stmt 28 *) [kind |-> "Semi", span |-> Sp(1019, 1022), expr |-> 107],
    (* stmt 29 *) [kind |-> "Semi", span |-> Sp(1027, 1030), expr |-> 108],
    (* stmt 30 *) [kind |-> "Expr", span |-> Sp(1405, 1416), expr |-> 162],
    (* stmt 31 *) [kind |-> "Semi", span |-> Sp(1608, 1611), expr |-> 170],
    (* stmt 32 *) [kind |-> "Semi", span |-> Sp(1614, 1617), expr |-> 171],
    (* stmt 33 *) [kind |-> "Semi", span |-> Sp(1622, 1625), expr |-> 172],
    (* stmt 34 *) [kind |-> "Semi", span |-> Sp(1630, 1633), expr |-> 173],
    (* stmt 35 *) [kind |-> "Semi", span |-> Sp(1803, 1810), expr |-> 175],
    (* stmt 36 *) [kind |-> "Local", span |-> Sp(1811, 1820), mutability |-> "Immutable", pat |-> 20, expr |-> 178],
    (* stmt 37 *) [kind |-> "Semi", span |-> Sp(1821, 1828), expr |-> 181],
    (* stmt 38 *) [kind |-> "Expr", span |-> Sp(1829, 1832), expr |-> 184]
  >>

Blocks0 ==
  <<
    (* block 1 *) [span |-> Sp(4, 13), stmts |-> <<1>>],
    (* block 2 *) [span |-> Sp(18, 51), stmts |-> <<2, 5>>],
    (* block 3 *) [span |-> Sp(24, 37), stmts |-> <<3>>],
    (* block 4 *) [span |-> Sp(27, 34), stmts |-> <<4>>],
    (* block 5 *) [span |-> Sp(56, 75), stmts |-> <<6, 7>>],
    (* block 6 *) [span |-> Sp(102, 125), stmts |-> <<8, 9>>],
    (* block 7 *) [span |-> Sp(502, 533), stmts |-> <<11, 12, 14>>],
    (* block 8 *) [span |-> Sp(517, 526), stmts |-> <<13>>],
    (* block 9 *) [span |-> Sp(602, 657), stmts |-> <<15, 16, 17, 18, 19, 20>>],
    (* block 10 *) [span |-> Sp(702, 723), stmts |-> <<21, 22, 23>>],
    (* block 11 *) [span |-> Sp(802, 815), stmts |-> <<24, 25>>],
    (* block 12 *) [span |-> Sp(1004, 1009), stmts |-> <<26>>],
    (* block 13 *) [span |-> Sp(1010, 1015), stmts |-> <<27>>],
    (* block 14 *) [span |-> Sp(1018, 1023), stmts |-> <<28>>],
    (* block 15 *) [span |-> Sp(1026, 1031), stmts |-> <<29>>],
    (* block 16 *) [span |-> Sp(1404, 1417), stmts |-> <<30>>],
    (* block 17 *) [span |-> Sp(1607, 1612), stmts |-> <<31>>],
    (* block 18 *) [span |-> Sp(1613, 1618), stmts |-> <<32>>],
    (* block 19 *) [span |-> Sp(1621, 1626), stmts |-> <<33>>],
    (* block 20 *) [span |-> Sp(1629, 1634), stmts |-> <<34>>],
    (* block 21 *) [span |-> Sp(1802, 1833), stmts |-> <<35, 36, 37, 38>>]
  >>

Pats0 ==
  <<
    (* pat 1 *) [kind |-> "Bind", id |-> 1, name |-> "x", span |-> Sp(2, 3)],
    (* pat 2 *) [kind |-> "Bind", id |-> 2, name |-> "c", span |-> Sp(16, 17)],
    (* pat 3 *) [kind |-> "Bind", id |-> 3, name |-> "x", span |-> Sp(54, 55)],
    (* pat 4 *) [kind |-> "Bind", id |-> 4, name |-> "y", span |-> Sp(58, 59)],
    (* pat 5 *) [kind |-> "Bind", id |-> 5, name |-> "x", span |-> Sp(104, 105)],
    (* pat 6 *) [kind |-> "Bind", id |-> 6, name |-> "i", span |-> Sp(504, 505)],
    (* pat 7 *) [kind |-> "Bind", id |-> 7, name |-> "a", span |-> Sp(604, 605)],
    (* pat 8 *) [kind |-> "Bind", id |-> 8, name |-> "b", span |-> Sp(614, 615)],
    (* pat 9 *) [kind |-> "Bind", id |-> 9, name |-> "a", span |-> Sp(704, 705)],
    (* pat 10 *) [kind |-> "Bind", id |-> 10, name |-> "x", span |-> Sp(1002, 1003)],
    (* pat 11 *) [kind |-> "Bind", id |-> 11, name |-> "cs", span |-> Sp(1016, 1017)],
    (* pat 12 *) [kind |-> "Bind", id |-> 12, name |-> "cs", span |-> Sp(1024, 1025)],
    (* pat 13 *) [kind |-> "Bind", id |-> 13, name |-> "x", span |-> Sp(1402, 1403)],
    (* pat 14 *) [kind |-> "Tuple", pats |-> <<15, 16>>],
    (* pat 15 *) [kind |-> "Bind", id |-> 14, name |-> "k", span |-> Sp(1603, 1604)],
    (* pat 16 *) [kind |-> "Bind", id |-> 15, name |-> "y", span |-> Sp(1605, 1606)],
    (* pat 17 *) [kind |-> "Bind", id |-> 16, name |-> "cs", span |-> Sp(1619, 1620)],
    (* pat 18 *) [kind |-> "Bind", id |-> 17, name |-> "cs", span |-> Sp(1627, 1628)],
    (* pat 19 *) [kind |-> "Bind", id |-> 18, name |-> "x", span |-> Sp(1702, 1703)],
    (* pat 20 *) [kind |-> "Bind", id |-> 19, name |-> "y", span |-> Sp(1812, 1813)]
  >>

Items0 ==
  <<
    (* item 1 *) [kind |-> "Callable", name |-> "Add1", span |-> Sp(1, 14), input |-> 1, output |-> "Int", impl |-> "Spec", body |-> [input |-> <<>>, block |-> 1], adj |-> <<>>, ctl |-> <<>>, ctl_adj |-> <<>>],
    (* item 2 *) [kind |-> "Callable", name |-> "Ret", span |-> Sp(15, 52), input |-> 2, output |-> "Int", impl |-> "Spec", body |-> [input |-> <<>>, block |-> 2], adj |-> <<>>, ctl |-> <<>>, ctl_adj |-> <<>>],
    (* item 3 *) [kind |-> "Callable", name |-> "Outer", span |-> Sp(53, 76), input |-> 3, output |-> "Int", impl |-> "Spec", body |-> [input |-> <<>>, block |-> 5], adj |-> <<>>, ctl |-> <<>>, ctl_adj |-> <<>>],
    (* item 4 *) [kind |-> "Callable", name |-> "Op", span |-> Sp(1001, 1032), input |-> 10, output |-> "Unit", impl |-> "Spec", body |-> [input |-> <<>>, block |-> 12], adj |-> <<[input |-> <<>>, block |-> 13]>>, ctl |-> <<[input |-> <<11>>, block |-> 14]>>, ctl_adj |-> <<[input |-> <<12>>, block |-> 15]>>],
    (* item 5 *) [kind |-> "Callable", name |-> "Outer2", span |-> Sp(1401, 1418), input |-> 13, output |-> "Int", impl |-> "Spec", body |-> [input |-> <<>>, block |-> 16], adj |-> <<>>, ctl |-> <<>>, ctl_adj |-> <<>>],
    (* item 6 *) [kind |-> "Callable", name |-> "Lambda", span |-> Sp(1601, 1635), input |-> 14, output |-> "Unit", impl |-> "Spec", body |-> [input |-> <<>>, block |-> 17], adj |-> <<[input |-> <<>>, block |-> 18]>>, ctl |-> <<[input |-> <<17>>, block |-> 19]>>, ctl_adj |-> <<[input |-> <<18>>, block |-> 20]>>],
    (* item 7 *) [kind |-> "Callable", name |-> "Emit", span |-> Sp(1701, 1704), input |-> 19, output |-> "Unit", impl |-> "Intrinsic"]
  >>

Exprs1 ==
  <<
    (* expr 1 *) [kind |-> "BinOp", span |-> Sp(6, 11), op |-> "Div", lhs |-> 2, rhs |-> 3],
    (* expr 2 *) [kind |-> "Lit", span |-> Sp(7, 8), val |-> IntV(6)],
    (* expr 3 *) [kind |-> "Var", span |-> Sp(9, 10), res |-> [k |-> "Local", id |-> 1, package |-> <<>>, item |-> 0], ty |-> "Int"]
  >>

Stmts1 ==
  <<
    (* stmt 1 *) [kind |-> "Expr", span |-> Sp(5, 12), expr |-> 1]
  >>

Blocks1 ==
  <<
    (* block 1 *) [span |-> Sp(4, 13), stmts |-> <<1>>]
  >>

Pats1 ==
  <<
    (* pat 1 *) [kind |-> "Bind", id |-> 1, name |-> "x", span |-> Sp(2, 3)]
  >>

Items1 ==
  <<
    (* item 1 *) [kind |-> "Callable", name |-> "Div", span |-> Sp(1, 14), input |-> 1, output |-> "Int", impl |-> "Spec", body |-> [input |-> <<>>, block |-> 1], adj |-> <<>>, ctl |-> <<>>, ctl_adj |-> <<>>]
  >>

get_expr(p, id) == IF p = 0 THEN Exprs0[id] ELSE Exprs1[id]
get_stmt(p, id) == IF p = 0 THEN Stmts0[id] ELSE Stmts1[id]
get_block(p, id) == IF p = 0 THEN Blocks0[id] ELSE Blocks1[id]
get_pat(p, id) == IF p = 0 THEN Pats0[id] ELSE Pats1[id]
(* get_global: None for an unknown item id. *)
get_global(id) ==
  CASE id.package = 0 /\ id.item \in 1..Len(Items0) -> <<Items0[id.item]>>
    [] id.package = 1 /\ id.item \in 1..Len(Items1) -> <<Items1[id.item]>>
    [] OTHER -> <<>>

(* The entries a State is loaded with (eval's EvalId), and the literals P, B1, B2 *)
(* each is run with.                                                              *)
Pm(P, B1, B2) == [P |-> P, B1 |-> B1, B2 |-> B2]
Programs ==
  <<
    [name |-> "arith", kind |-> "Expr", id |-> 20, params |-> {Pm(P, FALSE, FALSE) : P \in {0, 3}}],
    [name |-> "call", kind |-> "Expr", id |-> 29, params |-> {Pm(0, B, FALSE) : B \in BOOLEAN}],
    [name |-> "nested", kind |-> "Stmt", id |-> 10, params |-> {Pm(P, FALSE, FALSE) : P \in {-1, 2}}],
    [name |-> "logic", kind |-> "Expr", id |-> 37, params |-> {Pm(0, B1, B2) : B1 \in BOOLEAN, B2 \in BOOLEAN}],
    [name |-> "loop", kind |-> "Expr", id |-> 44, params |-> {Pm(P, FALSE, FALSE) : P \in 0..MaxLoop}],
    [name |-> "arrays", kind |-> "Expr", id |-> 54, params |-> {Pm(P, FALSE, FALSE) : P \in {0, 5}}],
    [name |-> "selfappend", kind |-> "Expr", id |-> 74, params |-> {Pm(1, FALSE, FALSE)}],
    [name |-> "topret", kind |-> "Expr", id |-> 81, params |-> {Pm(0, FALSE, FALSE)}],
    [name |-> "order", kind |-> "Expr", id |-> 86, params |-> {Pm(P, FALSE, FALSE) : P \in {0, 2, 4}}],
    [name |-> "functors", kind |-> "Expr", id |-> 109, params |-> {Pm(0, FALSE, FALSE)}],
    [name |-> "modulo", kind |-> "Expr", id |-> 159, params |-> {Pm(P, FALSE, FALSE) : P \in {0, 3}}],
    [name |-> "callarg", kind |-> "Expr", id |-> 167, params |-> {Pm(P, FALSE, FALSE) : P \in {-1, 1}}],
    [name |-> "effects", kind |-> "Expr", id |-> 174, params |-> {Pm(P, FALSE, FALSE) : P \in {-1, 2}}]
  >>

(* The breakpoint lists the host may hand to eval: none, or one statement id *)
(* (statement 1 is the body of Add1 and of Div, statement 4 is `return 10;`).   *)
BreakpointLists == {<<>>, <<1>>, <<4>>}
StepActions == {"Next", "In", "Out", "Continue"}

---------------------------------------------------------------------------
(* The evaluator's state as one record, so that a handler is an operator from *)
(* state to state.  err holds the Error a handler returned, if any.           *)
St ==
  [cont_stack |-> cont_stack, action_stack |-> action_stack, vals |-> vals,
   package |-> package, call_stack |-> call_stack, current_span |-> current_span,
   env |-> env, out |-> out, err |-> <<>>]

Raise(S, kind, val, span) == [S EXCEPT !.err = <<[kind |-> kind, val |-> val, span |-> span]>>]

(* Cont and Action. *)
ContAction_ == [k |-> "Action", v |-> 0]
ContExpr_(e) == [k |-> "Expr", v |-> e]
ContFrame_(len) == [k |-> "Frame", v |-> len]
ContScope_ == [k |-> "Scope", v |-> 0]
ContStmt_(s) == [k |-> "Stmt", v |-> s]

(* Env *)
EnvDefault == <<[bindings |-> <<>>, frame_id |-> 0]>>
HasBinding(scope, id) == \E i \in 1..Len(scope.bindings) : scope.bindings[i].id = id
Binding(scope, id) == scope.bindings[CHOOSE i \in 1..Len(scope.bindings) : scope.bindings[i].id = id]
(* The index of the innermost scope that binds id, 0 when there is none. *)
RECURSIVE EnvFind(_, _, _)
EnvFind(e, id, i) ==
  IF i = 0 THEN 0 ELSE IF HasBinding(e[i], id) THEN i ELSE EnvFind(e, id, i - 1)
env_get(e, id) ==
  LET i == EnvFind(e, id, Len(e)) IN IF i = 0 THEN <<>> ELSE <<Binding(e[i], id)>>
(* IndexMap::insert: the bindings are kept in key order, a key holds one value. *)
bindings_insert(bindings, var) ==
  SelectSeq(bindings, LAMBDA x : x.id < var.id) \o <<var>> \o SelectSeq(bindings, LAMBDA x : x.id > var.id)
(* What get_mut(id) followed by an assignment to the variable's value does. *)
env_set(e, id, val) ==
  LET i == EnvFind(e, id, Len(e)) IN
  [e EXCEPT ![i].bindings = [j \in 1..Len(@) |-> IF @[j].id = id THEN [@[j] EXCEPT !.value = val] ELSE @[j]]]
env_push_scope(e, frame_id) == Append(e, [bindings |-> <<>>, frame_id |-> frame_id])
env_leave_scope(e) == Pop(e)
(* get_variables_in_frame: a VariableInfo for each binding of the scopes of the frame, *)
(* the scopes in the order of the Vec and the bindings of a scope in key order.        *)
VariableInfo(var) ==
  [name |-> var.name, type_name |-> var.value.t, value |-> var.value,
   mutability |-> var.mutability, span |-> var.span]
get_variables_in_frame(e, frame_id) ==
  LET candidate_scopes == SelectSeq(e, LAMBDA scope : scope.frame_id = frame_id)
      variables_by_scope ==
        [i \in 1..Len(candidate_scopes) |->
           [j \in 1..Len(candidate_scopes[i].bindings) |->
              VariableInfo(candidate_scopes[i].bindings[j])]]
  IN Flatten(variables_by_scope)
get_variables_in_top_frame(e) ==
  IF e # <<>> THEN get_variables_in_frame(e, Top(e).frame_id) ELSE <<>>

(* Reference counts: the strong references to an allocation are its occurrences *)
(* in the values the value stack and the environment hold.                      *)
LiveRcs(S) ==
  Flatten([i \in 1..Len(S.vals) |-> RcsOfVal(S.vals[i])])
  \o Flatten([i \in 1..Len(S.env) |->
       Flatten([j \in 1..Len(S.env[i].bindings) |-> RcsOfVal(S.env[i].bindings[j].value)])])
strong_count(S, rc) == Len(SelectSeq(LiveRcs(S), LAMBDA x : x = rc))
(* A new allocation: the first identity no live value holds. *)
FreshRc(S) ==
  LET live == {LiveRcs(S)[i] : i \in 1..Len(LiveRcs(S))}
  IN CHOOSE n \in 1..(Cardinality(live) + 1) : n \notin live /\ \A m \in 1..(n - 1) : m \in live

to_global_span(S, span) == [package |-> S.package, span |-> span]

(* State's stack operations. *)
push_action(S, action) ==
  [S EXCEPT !.cont_stack = Append(@, ContAction_), !.action_stack = Append(@, action)]
push_expr(S, e) == [S EXCEPT !.cont_stack = Append(@, ContExpr_(e))]
push_exprs(S, es) == [S EXCEPT !.cont_stack = @ \o Rev([i \in 1..Len(es) |-> ContExpr_(es[i])])]
push_val(S, val) == [S EXCEPT !.vals = Append(@, val)]
pop_val(S) == [S EXCEPT !.vals = Pop(@)]
push_stmt(S, s) == [S EXCEPT !.cont_stack = Append(@, ContStmt_(s))]
push_frame(S, id, functor) ==
  [S EXCEPT !.call_stack = Append(@, [span |-> S.current_span, id |-> id,
                                       caller |-> S.package, functor |-> functor]),
            !.cont_stack = Append(@, ContFrame_(Len(S.vals))),
            !.package = id.package]
(* leave_frame as it would be without `self.vals.drain(len..)`. *)
leave_frame_no_drain(S, len) ==
  [S EXCEPT !.call_stack = Pop(@), !.package = Top(S.call_stack).caller]
leave_frame(S, len) ==
  LET frame == Top(S.call_stack)
      frame_val == Top(S.vals)
  IN [S EXCEPT !.call_stack = Pop(@),
               !.package = frame.caller,
               !.vals = Append(SubSeq(Pop(@), 1, len), frame_val)]
push_scope(S) ==
  [S EXCEPT !.env = env_push_scope(@, Len(S.call_stack)),
            !.cont_stack = Append(@, ContScope_)]
(* push_block: the scope, then the statements last to first, each under a Consume; the *)
(* Consume pushed last (above the first statement) is taken off again.                 *)
RECURSIVE push_block_stmts(_, _, _)
push_block_stmts(S, stmts, i) ==
  IF i = 0 THEN S
  ELSE push_block_stmts(push_action(push_stmt(S, stmts[i]), [a |-> "Consume"]), stmts, i - 1)
push_block(S, b) ==
  LET block == get_block(S.package, b)
      S1 == push_block_stmts(push_scope(S), block.stmts, Len(block.stmts))
  IN IF block.stmts = <<>> THEN push_val(S1, UnitV)
     ELSE IF Top(S1.cont_stack).k = "Action"
       THEN [S1 EXCEPT !.cont_stack = Pop(@), !.action_stack = Pop(@)]
       ELSE [S1 EXCEPT !.cont_stack = Pop(@)]

(* get_stack_frames as it would be if it left out the frame the error was raised in. *)
get_stack_frames_callers(S) ==
  [i \in 1..(Len(S.call_stack) - 1) |-> [S.call_stack[i] EXCEPT !.span = S.call_stack[i + 1].span]]

(* get_stack_frames: the call stack, each frame's span replaced by the span that was *)
(* current inside it (the innermost frame gets current_span).                         *)
get_stack_frames(S) ==
  [i \in 1..Len(S.call_stack) |->
     [S.call_stack[i] EXCEPT !.span = IF i = Len(S.call_stack) THEN S.current_span
                                      ELSE S.call_stack[i + 1].span]]

---------------------------------------------------------------------------
(* Scheduling: cont_expr and cont_stmt (what an IR node pushes). *)

resolve_binding(S, res, span) ==
  IF res.k = "Item"
    THEN [ok |-> TRUE,
          val |-> GlobalV([package |-> IF res.package = <<>> THEN S.package ELSE res.package[1],
                           item |-> res.item], FunctorAppDefault)]
    ELSE LET var == env_get(S.env, res.id)
         IN IF var = <<>> THEN [ok |-> FALSE, val |-> UnitV]
            ELSE [ok |-> TRUE, val |-> var[1].value]

(* Whether the expression is a mutable local holding an array nobody else holds. *)
is_updatable_in_place(S, expr) ==
  /\ expr.kind = "Var"
  /\ expr.res.k = "Local"
  /\ LET var == env_get(S.env, expr.res.id)
     IN /\ var # <<>>
        /\ var[1].mutability = "Mutable"
        /\ var[1].value.t = "Array"
        /\ strong_count(S, var[1].value.rc) = 1

cont_tup(S, tup) == push_exprs(push_action(S, [a |-> "Tuple", len |-> Len(tup)]), tup)
cont_arr(S, arr) == push_exprs(push_action(S, [a |-> "Array", len |-> Len(arr)]), arr)
cont_arr_repeat(S, item, size) ==
  push_expr(push_expr(push_action(S, [a |-> "ArrayRepeat", span |-> get_expr(S.package, size).span]),
                      size), item)
cont_ret(S, e) == push_expr(push_action(S, [a |-> "Return"]), e)
cont_if(S, cond_expr, then_expr, else_expr) ==
  push_expr(push_action(S, [a |-> "If", then |-> then_expr, else |-> else_expr]), cond_expr)
cont_fail(S, span, fail_expr) == push_expr(push_action(S, [a |-> "Fail", span |-> span]), fail_expr)
cont_assign(S, lhs, rhs) ==
  push_val(push_expr(push_action(S, [a |-> "Assign", lhs |-> lhs]), rhs), UnitV)

cont_binop(S, op, rhs, lhs) ==
  LET rhs_expr == get_expr(S.package, rhs)
  IN IF op \in {"AndL", "OrL"}
       THEN push_expr(push_action(S, [a |-> "BinOp", op |-> op, span |-> rhs_expr.span, rhs |-> <<rhs>>]),
                      lhs)
       ELSE push_expr(push_expr(push_action(S, [a |-> "BinOp", op |-> op, span |-> rhs_expr.span,
                                                rhs |-> <<>>]),
                                rhs), lhs)

(* `set arr += other` is done in place when arr is an array that can be updated in place. *)
cont_assign_op(S, op, lhs, rhs) ==
  LET expr == get_expr(S.package, lhs)
  IN IF op = "Add" /\ expr.kind = "Var" /\ expr.ty = "Array" /\ is_updatable_in_place(S, expr)
       THEN push_val(push_expr(push_action(S, [a |-> "ArrayAppendInPlace", lhs |-> lhs]), rhs), UnitV)
       ELSE push_val(cont_binop(push_action(S, [a |-> "Assign", lhs |-> lhs]), op, rhs, lhs), UnitV)

update_index(S, lhs, mid, rhs) ==
  LET span == get_expr(S.package, mid).span
  IN push_expr(push_expr(push_expr(push_action(S, [a |-> "UpdateIndex", span |-> span]), lhs), rhs), mid)

cont_assign_index(S, lhs, mid, rhs) ==
  IF is_updatable_in_place(S, get_expr(S.package, lhs))
    THEN LET span == get_expr(S.package, mid).span
         IN push_val(push_expr(push_expr(
              push_action(S, [a |-> "UpdateIndexInPlace", lhs |-> lhs, span |-> span]), rhs), mid), UnitV)
    ELSE push_val(update_index(push_action(S, [a |-> "Assign", lhs |-> lhs]), lhs, mid, rhs), UnitV)

cont_index(S, arr, index) ==
  push_expr(push_expr(push_action(S, [a |-> "Index", span |-> get_expr(S.package, index).span]),
                      index), arr)

cont_range(S, start, stp, end) ==
  LET S1 == push_action(S, [a |-> "Range", has_start |-> start # <<>>, has_step |-> stp # <<>>,
                                 has_end |-> end # <<>>])
      S2 == IF end # <<>> THEN push_expr(S1, end[1]) ELSE S1
      S3 == IF stp # <<>> THEN push_expr(S2, stp[1]) ELSE S2
  IN IF start # <<>> THEN push_expr(S3, start[1]) ELSE S3

cont_while(S, cond_expr, block) ==
  push_expr(push_action(S, [a |-> "While", cond |-> cond_expr, block |-> block]), cond_expr)

cont_call(S, callee, args) ==
  LET callee_expr == get_expr(S.package, callee)
      args_expr == get_expr(S.package, args)
  IN push_expr(push_expr(push_action(S, [a |-> "Call", callable_span |-> callee_expr.span,
                                             args_span |-> args_expr.span]),
                         args), callee)

cont_unop(S, op, e) == push_expr(push_action(S, [a |-> "UnOp", op |-> op]), e)

(* cont_expr.  The kinds AssignField, Closure, Field, String and UpdateField do not *)
(* occur in the programs of the store.                                              *)
cont_expr(S0, id) ==
  LET expr == get_expr(S0.package, id)
      S == [S0 EXCEPT !.current_span = expr.span]
  IN CASE expr.kind = "Array" -> cont_arr(S, expr.items)
       [] expr.kind = "ArrayRepeat" -> cont_arr_repeat(S, expr.item, expr.size)
       [] expr.kind = "Assign" -> cont_assign(S, expr.lhs, expr.rhs)
       [] expr.kind = "AssignOp" -> cont_assign_op(S, expr.op, expr.lhs, expr.rhs)
       [] expr.kind = "AssignIndex" -> cont_assign_index(S, expr.lhs, expr.mid, expr.rhs)
       [] expr.kind = "BinOp" -> cont_binop(S, expr.op, expr.rhs, expr.lhs)
       [] expr.kind = "Block" -> push_block(S, expr.block)
       [] expr.kind = "Call" -> cont_call(S, expr.callee, expr.args)
       [] expr.kind = "Fail" -> cont_fail(S, expr.span, expr.expr)
       [] expr.kind = "If" -> cont_if(S, expr.cond, expr.then, expr.else)
       [] expr.kind = "Index" -> cont_index(S, expr.arr, expr.index)
       [] expr.kind = "Lit" -> push_val(S, expr.val)
       [] expr.kind = "Range" -> cont_range(S, expr.start, expr.step, expr.end)
       [] expr.kind = "Return" -> cont_ret(S, expr.expr)
       [] expr.kind = "UpdateIndex" -> update_index(S, expr.lhs, expr.mid, expr.rhs)
       [] expr.kind = "Tuple" -> cont_tup(S, expr.items)
       [] expr.kind = "UnOp" -> cont_unop(S, expr.op, expr.expr)
       [] expr.kind = "Var" ->
            LET r == resolve_binding(S, expr.res, expr.span)
            IN IF r.ok THEN push_val(S, r.val)
               ELSE Raise(S, "UnboundName", 0, to_global_span(S, expr.span))
       [] expr.kind = "While" -> cont_while(S, expr.cond, expr.block)

cont_stmt(S0, id) ==
  LET stmt == get_stmt(S0.package, id)
      S == [S0 EXCEPT !.current_span = stmt.span]
  IN CASE stmt.kind = "Expr" -> push_expr(S, stmt.expr)
       [] stmt.kind = "Item" -> push_val(S, UnitV)
       [] stmt.kind = "Local" ->
            push_val(push_expr(push_action(S, [a |-> "Bind", pat |-> stmt.pat,
                                                   mutability |-> stmt.mutability]),
                               stmt.expr), UnitV)
       [] stmt.kind = "Semi" ->
            push_val(push_expr(push_action(S, [a |-> "Consume"]), stmt.expr), UnitV)

---------------------------------------------------------------------------
(* Operations on values.  The Int operands of the stored programs stay far from *)
(* the limits of i64, where the wrapping operations are the integer ones.       *)
Abs(i) == IF i < 0 THEN -i ELSE i
(* i64::wrapping_div and wrapping_rem truncate towards zero. *)
wrapping_div(a, b) == IF (a < 0) # (b < 0) THEN -(Abs(a) \div Abs(b)) ELSE Abs(a) \div Abs(b)
wrapping_rem(a, b) == a - b * wrapping_div(a, b)

(* f64 `/` and `%` (IEEE 754 division, and the remainder with the dividend's sign). *)
f64_div(a, b) ==
  CASE a.c = "nan" \/ b.c = "nan" -> NaN
    [] a.c = "inf" -> IF b.c = "inf" THEN NaN ELSE Inf(a.neg # b.neg)
    [] b.c = "inf" -> Fin(a.neg # b.neg, 0, 1)
    [] b.num = 0 -> IF a.num = 0 THEN NaN ELSE Inf(a.neg # b.neg)
    [] OTHER -> Fin(a.neg # b.neg, a.num * b.den, a.den * b.num)
f64_rem(a, b) ==
  CASE a.c = "nan" \/ b.c = "nan" \/ a.c = "inf" -> NaN
    [] b.c = "inf" -> Fin(a.neg, a.num, a.den)
    [] b.num = 0 -> NaN
    [] OTHER -> Fin(a.neg, (a.num * b.den) % (b.num * a.den), a.den * b.den)
(* f64 `== 0.0`: true of both zeros. *)
f64_is_zero(a) == a.c = "fin" /\ a.num = 0

Ok(items) == [ok |-> TRUE, items |-> items, kind |-> "", val |-> 0]
Err(kind, val, items) == [ok |-> FALSE, items |-> items, kind |-> kind, val |-> val]

(* i64 arithmetic, on IntBits bits in place of 64: the values of the type and what *)
(* an addition gives where it wraps.                                               *)
IntBits == 16
I64Max == 2^(IntBits - 1) - 1
I64Min == -(2^(IntBits - 1))
wrapping_add(a, b) == ((a + b - I64Min) % 2^IntBits) + I64Min
add_i64_overflows(a, b) == a + b < I64Min \/ a + b > I64Max

(* The Range iterator as the loops over it drive it: next() adds the step to curr  *)
(* and yields the old curr while it has not passed end.  The loops index an array  *)
(* of len items with what is yielded and stop at the first position outside it, so *)
(* the positions are given up to that one.  The addition is the wrapping one;      *)
(* RangeOverflows tells whether a next() the loop makes adds with overflow.        *)
RECURSIVE RangeItems(_, _, _, _)
RangeItems(curr, stp, end, len) ==
  IF (stp > 0 /\ curr <= end) \/ (stp < 0 /\ curr >= end)
    THEN IF curr \in 0..(len - 1)
           THEN <<curr>> \o RangeItems(wrapping_add(curr, stp), stp, end, len)
           ELSE <<curr>>
    ELSE <<>>
RECURSIVE RangeOverflows(_, _, _, _)
RangeOverflows(curr, stp, end, len) ==
  \/ add_i64_overflows(curr, stp)
  \/ /\ (stp > 0 /\ curr <= end) \/ (stp < 0 /\ curr >= end)
     /\ curr \in 0..(len - 1)
     /\ RangeOverflows(curr + stp, stp, end, len)

(* make_range: the positions a Range value selects in an array of the given items. *)
range_start(arr, start, stp) ==
  IF start # <<>> THEN start[1] ELSE IF stp > 0 THEN 0 ELSE Len(arr) - 1
range_end(arr, stp, end) ==
  IF end # <<>> THEN end[1] ELSE IF stp > 0 THEN Len(arr) - 1 ELSE 0
make_range(arr, start, stp, end) ==
  IF stp = 0 THEN Err("RangeStepZero", 0, <<>>)
  ELSE Ok(RangeItems(range_start(arr, start, stp), stp, range_end(arr, stp, end), Len(arr)))

(* index_array: as_index refuses a negative index, get an index past the end. *)
index_array(arr, index) ==
  IF index < 0 THEN Err("InvalidIndex", index, <<>>)
  ELSE IF index >= Len(arr) THEN Err("IndexOutOfRange", index, <<>>)
  ELSE Ok(<<arr[index + 1]>>)

RECURSIVE slice_loop(_, _, _, _)
slice_loop(arr, range, k, slice) ==
  IF k > Len(range) THEN Ok(slice)
  ELSE LET r == index_array(arr, range[k])
       IN IF r.ok THEN slice_loop(arr, range, k + 1, slice \o r.items) ELSE r
slice_array(arr, start, stp, end) ==
  LET range == make_range(arr, start, stp, end)
  IN IF range.ok THEN slice_loop(arr, range.items, 1, <<>>) ELSE range

(* The copying update (UpdateIndex): the items of the new array. *)
(* eval_update_index_single as it would be if it wrote the first position. *)
eval_update_index_single_first(values, index, update) ==
  IF index < 0 THEN Err("InvalidNegativeInt", index, <<>>)
  ELSE IF index >= Len(values) THEN Err("IndexOutOfRange", index, <<>>)
  ELSE Ok([values EXCEPT ![1] = update])
eval_update_index_single(values, index, update) ==
  IF index < 0 THEN Err("InvalidNegativeInt", index, <<>>)
  ELSE IF index >= Len(values) THEN Err("IndexOutOfRange", index, <<>>)
  ELSE Ok([values EXCEPT ![index + 1] = update])

RECURSIVE eval_update_index_range_loop(_, _, _, _)
eval_update_index_range_loop(values, range, update, k) ==
  IF k > Len(range) \/ k > Len(update) THEN Ok(values)
  ELSE LET idx == range[k]
       IN IF idx < 0 THEN Err("InvalidIndex", idx, <<>>)
          ELSE IF idx >= Len(values) THEN Err("IndexOutOfRange", idx, <<>>)
          ELSE eval_update_index_range_loop([values EXCEPT ![idx + 1] = update[k]], range, update, k + 1)
eval_update_index_range(values, start, stp, end, update) ==
  LET range == make_range(values, start, stp, end)
  IN IF range.ok THEN eval_update_index_range_loop(values, range.items, update.v, 1) ELSE range

(* Value::update_array on the items of the variable's array: Err(index) past the end. *)
update_array(arr, index, value) ==
  IF index < Len(arr) THEN Ok([arr EXCEPT ![index + 1] = value]) ELSE Err("", index, arr)
(* Value::append_array *)
append_array(arr, items) == arr \o items

(* The update in place (UpdateIndexInPlace): the items the variable's array holds *)
(* afterwards, also when the update fails.                                        *)
update_array_index_single(arr, index, update) ==
  LET r == update_array(arr, index, update)
  IN IF r.ok THEN r ELSE Err("IndexOutOfRange", r.val, arr)

RECURSIVE update_array_index_range_loop(_, _, _, _)
update_array_index_range_loop(arr, range, rhs, k) ==
  IF k > Len(range) \/ k > Len(rhs) THEN Ok(arr)
  ELSE LET idx == range[k]
       IN IF idx < 0 THEN Err("InvalidNegativeInt", idx, arr)
          ELSE LET r == update_array(arr, idx, rhs[k])
               IN IF r.ok THEN update_array_index_range_loop(r.items, range, rhs, k + 1)
                  ELSE Err("IndexOutOfRange", r.val, arr)
update_array_index_range(arr, start, stp, end, update) ==
  LET range == make_range(arr, start, stp, end)
  IN IF range.ok THEN update_array_index_range_loop(arr, range.items, update.v, 1)
     ELSE Err(range.kind, range.val, arr)

eval_update_index_in_place_items(arr, index, update) ==
  IF index.t = "Int"
    THEN IF index.v < 0 THEN Err("InvalidNegativeInt", index.v, arr)
         ELSE update_array_index_single(arr, index.v, update)
    ELSE update_array_index_range(arr, index.v.start, index.v.step, index.v.end, update)

eval_update_index_items(values, index, update) ==
  IF index.t = "Int"
    THEN eval_update_index_single(values, index.v, update)
    ELSE eval_update_index_range(values, index.v.start, index.v.step, index.v.end, update)

(* spec_from_functor_app as it would be if the adjoint flag were tested alone. *)
spec_from_functor_app_adj_first(functor) ==
  CASE functor.adjoint -> "Adj"
    [] functor.controlled = 0 -> "Body"
    [] OTHER -> "Ctl"

spec_from_functor_app(functor) ==
  CASE ~functor.adjoint /\ functor.controlled = 0 -> "Body"
    [] functor.adjoint /\ functor.controlled = 0 -> "Adj"
    [] ~functor.adjoint -> "Ctl"
    [] OTHER -> "CtlAdj"

(* FunctorApp.controlled is a u8 (it is handed to bind_args_for_spec as ctl_count: u8). *)
U8Max == 255
(* update_functor_app.  `app.controlled + 1` is a u8 addition: at 255 it panics in a *)
(* build with overflow checks and wraps to 0 in one without; add_overflows tells the *)
(* case, update_functor_app gives the wrapped value.                                 *)
add_overflows(functor, app) == functor = "Ctl" /\ app.controlled = U8Max
update_functor_app(functor, app) ==
  IF functor = "Adj" THEN [adjoint |-> ~app.adjoint, controlled |-> app.controlled]
  ELSE [adjoint |-> app.adjoint, controlled |-> (app.controlled + 1) % (U8Max + 1)]

(* follow_field_path: Some(value), None when the path goes into a value that is *)
(* not a tuple; `items[index]` panics on an index past the end of the tuple.    *)
RECURSIVE follow_field_path(_, _)
follow_field_path(value, path) ==
  IF path = <<>> THEN [k |-> "Some", v |-> value]
  ELSE IF value.t # "Tuple" THEN [k |-> "None", v |-> value]
  ELSE IF path[1] >= Len(value.v) THEN [k |-> "Panic", v |-> value]
  ELSE follow_field_path(value.v[path[1] + 1], Tail(path))

(* update_field_path as it would be if it replaced the item the first index names. *)
update_field_path_first(record, path, replace) ==
  IF path = <<>> THEN <<replace>>
  ELSE IF record.t = "Tuple" /\ path[1] < Len(record.v)
    THEN <<TupV([record.v EXCEPT ![path[1] + 1] = replace])>>
  ELSE <<>>

(* update_field_path: None for a path that does not lead to a component. *)
RECURSIVE update_field_path(_, _, _)
update_field_path(record, path, replace) ==
  IF path = <<>> THEN <<replace>>
  ELSE IF record.t = "Tuple" /\ path[1] < Len(record.v)
    THEN LET item == update_field_path(record.v[path[1] + 1], Tail(path), replace)
         IN IF item = <<>> THEN <<>>
            ELSE <<TupV([record.v EXCEPT ![path[1] + 1] = item[1]])>>
  ELSE <<>>

merge_fixed_args(fixed_args, arg) ==
  IF fixed_args # <<>> THEN TupV(fixed_args[1] \o <<arg>>) ELSE arg

---------------------------------------------------------------------------
(* The action evaluators (cont_action).  S is the state after the action has *)
(* been popped from the action stack.                                        *)

RaiseAt(S, r, span) == Raise(S, r.kind, r.val, to_global_span(S, span))

eval_arr(S, len) ==
  LET arr == SubSeq(S.vals, Len(S.vals) - len + 1, Len(S.vals))
      S1 == [S EXCEPT !.vals = SubSeq(@, 1, Len(@) - len)]
  IN push_val(S1, ArrV(FreshRc(S1), arr))

eval_tup(S, len) ==
  LET tup == SubSeq(S.vals, Len(S.vals) - len + 1, Len(S.vals))
  IN push_val([S EXCEPT !.vals = SubSeq(@, 1, Len(@) - len)], TupV(tup))

eval_arr_repeat(S, span) ==
  LET size_val == Top(S.vals).v
      item_val == Top(Pop(S.vals))
      S1 == pop_val(pop_val(S))
  IN IF size_val < 0 THEN Raise(S1, "InvalidArrayLength", size_val, to_global_span(S1, span))
     ELSE push_val(S1, ArrV(FreshRc(S1), [i \in 1..size_val |-> item_val]))

(* bind_value: the pattern's variables are inserted into the innermost scope. *)
RECURSIVE bind_value(_, _, _, _)
RECURSIVE bind_value_tuple(_, _, _, _, _)
bind_value(S, pat_id, val, mutability) ==
  LET pat == get_pat(S.package, pat_id)
  IN CASE pat.kind = "Bind" ->
            [S EXCEPT !.env[Len(S.env)].bindings =
               bindings_insert(@, [id |-> pat.id, name |-> pat.name, value |-> val,
                                   mutability |-> mutability, span |-> pat.span])]
       [] pat.kind = "Discard" -> S
       [] pat.kind = "Tuple" -> bind_value_tuple(S, pat.pats, val.v, 1, mutability)
bind_value_tuple(S, pats, tup, i, mutability) ==
  IF i > Len(pats) \/ i > Len(tup) THEN S
  ELSE bind_value_tuple(bind_value(S, pats[i], tup[i], mutability), pats, tup, i + 1, mutability)

eval_bind(S, pat, mutability) == bind_value(pop_val(S), pat, Top(S.vals), mutability)

(* update_binding: assignment to a mutable local, or to a tuple of them. *)
RECURSIVE update_binding(_, _, _)
RECURSIVE update_binding_tuple(_, _, _, _)
update_binding(S, lhs_id, rhs) ==
  LET lhs == get_expr(S.package, lhs_id)
  IN CASE lhs.kind = "Hole" -> S
       [] lhs.kind = "Var" /\ lhs.res.k = "Local" ->
            IF env_get(S.env, lhs.res.id) # <<>>
              THEN [S EXCEPT !.env = env_set(@, lhs.res.id, rhs)]
              ELSE Raise(S, "UnboundName", 0, to_global_span(S, lhs.span))
       [] lhs.kind = "Tuple" /\ rhs.t = "Tuple" -> update_binding_tuple(S, lhs.items, rhs.v, 1)
update_binding_tuple(S, var_tup, tup, i) ==
  IF i > Len(var_tup) \/ i > Len(tup) THEN S
  ELSE LET S1 == update_binding(S, var_tup[i], tup[i])
       IN IF S1.err # <<>> THEN S1 ELSE update_binding_tuple(S1, var_tup, tup, i + 1)

eval_assign(S, lhs) == update_binding(pop_val(S), lhs, Top(S.vals))

(* eval_array_append_in_place.  The array keeps its allocation when the variable is *)
(* its only holder while it is appended to, and is a new allocation otherwise.      *)
eval_array_append_in_place(S, lhs_id) ==
  LET lhs == get_expr(S.package, lhs_id)
      rhs == Top(S.vals)
      S1 == pop_val(S)
      var == env_get(S1.env, lhs.res.id)
  IN IF var = <<>> THEN Raise(S1, "UnboundName", 0, to_global_span(S1, lhs.span))
     ELSE LET rc == IF strong_count(S, var[1].value.rc) = 1 THEN var[1].value.rc ELSE FreshRc(S)
          IN [S1 EXCEPT !.env = env_set(@, lhs.res.id, ArrV(rc, append_array(var[1].value.v, rhs.v)))]

(* eval_binop_* on two operands; S, the state they were popped from, gives a new *)
(* array its allocation.                                                        *)
eval_binop_add(S, lhs_val, rhs_val) ==
  CASE lhs_val.t = "Array" -> ArrV(FreshRc(S), lhs_val.v \o rhs_val.v)
    [] lhs_val.t = "Int" -> IntV(lhs_val.v + rhs_val.v)
    [] lhs_val.t = "String" -> StrV(lhs_val.v \o rhs_val.v)
eval_binop_sub(S, lhs_val, rhs_val) == IntV(lhs_val.v - rhs_val.v)
eval_binop_mul(S, lhs_val, rhs_val) == IntV(lhs_val.v * rhs_val.v)
eval_binop_gt(S, lhs_val, rhs_val) == BoolV(lhs_val.v > rhs_val.v)
eval_binop_gte(S, lhs_val, rhs_val) == BoolV(lhs_val.v >= rhs_val.v)
eval_binop_lt(S, lhs_val, rhs_val) == BoolV(lhs_val.v < rhs_val.v)
eval_binop_lte(S, lhs_val, rhs_val) == BoolV(lhs_val.v <= rhs_val.v)
(* eval_binop_div as it would be if a Double divisor of 0.0 were refused. *)
eval_binop_div_checked(lhs_val, rhs_val) ==
  CASE lhs_val.t = "BigInt" ->
         IF rhs_val.v = 0 THEN Err("DivZero", 0, <<>>)
         ELSE Ok(<<BigIntV(wrapping_div(lhs_val.v, rhs_val.v))>>)
    [] lhs_val.t = "Int" ->
         IF rhs_val.v = 0 THEN Err("DivZero", 0, <<>>)
         ELSE Ok(<<IntV(wrapping_div(lhs_val.v, rhs_val.v))>>)
    [] lhs_val.t = "Double" ->
         IF f64_is_zero(rhs_val.v) THEN Err("DivZero", 0, <<>>)
         ELSE Ok(<<f64_div(lhs_val.v, rhs_val.v)>>)
(* eval_binop_mod as it would be if a Double divisor of 0.0 were left to `%`. *)
eval_binop_mod_ieee(lhs_val, rhs_val) ==
  CASE lhs_val.t = "BigInt" ->
         IF rhs_val.v = 0 THEN Err("DivZero", 0, <<>>)
         ELSE Ok(<<BigIntV(wrapping_rem(lhs_val.v, rhs_val.v))>>)
    [] lhs_val.t = "Int" ->
         IF rhs_val.v = 0 THEN Err("DivZero", 0, <<>>)
         ELSE Ok(<<IntV(wrapping_rem(lhs_val.v, rhs_val.v))>>)
    [] lhs_val.t = "Double" -> Ok(<<f64_rem(lhs_val.v, rhs_val.v)>>)

(* eval_binop_div and eval_binop_mod.  BigInt divides as Int does, truncating *)
(* towards zero, without a width.                                            *)
eval_binop_div(lhs_val, rhs_val) ==
  CASE lhs_val.t = "BigInt" ->
         IF rhs_val.v = 0 THEN Err("DivZero", 0, <<>>)
         ELSE Ok(<<BigIntV(wrapping_div(lhs_val.v, rhs_val.v))>>)
    [] lhs_val.t = "Int" ->
         IF rhs_val.v = 0 THEN Err("DivZero", 0, <<>>)
         ELSE Ok(<<IntV(wrapping_div(lhs_val.v, rhs_val.v))>>)
    [] lhs_val.t = "Double" -> Ok(<<f64_div(lhs_val.v, rhs_val.v)>>)
eval_binop_mod(lhs_val, rhs_val) ==
  CASE lhs_val.t = "BigInt" ->
         IF rhs_val.v = 0 THEN Err("DivZero", 0, <<>>)
         ELSE Ok(<<BigIntV(wrapping_rem(lhs_val.v, rhs_val.v))>>)
    [] lhs_val.t = "Int" ->
         IF rhs_val.v = 0 THEN Err("DivZero", 0, <<>>)
         ELSE Ok(<<IntV(wrapping_rem(lhs_val.v, rhs_val.v))>>)
    [] lhs_val.t = "Double" ->
         IF f64_is_zero(rhs_val.v) THEN Err("DivZero", 0, <<>>)
         ELSE Ok(<<f64_rem(lhs_val.v, rhs_val.v)>>)

(* The function handed to eval_binop_simple or eval_binop_with_error, by its name. *)
binop_func(name, S, lhs_val, rhs_val) ==
  CASE name = "eval_binop_add" -> eval_binop_add(S, lhs_val, rhs_val)
    [] name = "eval_binop_sub" -> eval_binop_sub(S, lhs_val, rhs_val)
    [] name = "eval_binop_mul" -> eval_binop_mul(S, lhs_val, rhs_val)
    [] name = "eval_binop_gt" -> eval_binop_gt(S, lhs_val, rhs_val)
    [] name = "eval_binop_gte" -> eval_binop_gte(S, lhs_val, rhs_val)
    [] name = "eval_binop_lt" -> eval_binop_lt(S, lhs_val, rhs_val)
    [] name = "eval_binop_lte" -> eval_binop_lte(S, lhs_val, rhs_val)
    [] name = "eval_binop_div" -> eval_binop_div(lhs_val, rhs_val)
    [] name = "eval_binop_mod" -> eval_binop_mod(lhs_val, rhs_val)

eval_binop_simple(S, name) ==
  LET rhs_val == Top(S.vals)
      lhs_val == Top(Pop(S.vals))
      S1 == pop_val(pop_val(S))
  IN push_val(S1, binop_func(name, S1, lhs_val, rhs_val))

eval_binop_with_error(S, span, name) ==
  LET rhs_val == Top(S.vals)
      lhs_val == Top(Pop(S.vals))
      S1 == pop_val(pop_val(S))
      r == binop_func(name, S1, lhs_val, rhs_val)
  IN IF r.ok THEN push_val(S1, r.items[1]) ELSE RaiseAt(S1, r, span)

(* Eq and Neq: `lhs_val == rhs_val` on the two popped values. *)
eval_binop_eq(S, negate) ==
  LET rhs_val == Top(S.vals)
      lhs_val == Top(Pop(S.vals))
  IN push_val(pop_val(pop_val(S)), BoolV(ValEq(lhs_val, rhs_val) # negate))

(* eval_binop as it would be if the logical operators always went on to their RHS. *)
eval_binop_eager(S, op, span, rhs) ==
  CASE op \in {"AndL", "OrL"} -> push_expr(pop_val(S), rhs[1])
    [] op = "Div" -> eval_binop_with_error(S, span, "eval_binop_div")
    [] op = "Mod" -> eval_binop_with_error(S, span, "eval_binop_mod")
    [] op = "Eq" -> eval_binop_eq(S, FALSE)
    [] op = "Neq" -> eval_binop_eq(S, TRUE)
    [] op = "Add" -> eval_binop_simple(S, "eval_binop_add")
    [] op = "Sub" -> eval_binop_simple(S, "eval_binop_sub")
    [] op = "Mul" -> eval_binop_simple(S, "eval_binop_mul")
    [] op = "Gt" -> eval_binop_simple(S, "eval_binop_gt")
    [] op = "Gte" -> eval_binop_simple(S, "eval_binop_gte")
    [] op = "Lt" -> eval_binop_simple(S, "eval_binop_lt")
    [] op = "Lte" -> eval_binop_simple(S, "eval_binop_lte")

(* eval_binop.  The bitwise operators, the shifts and Exp do not occur in the store. *)
eval_binop(S, op, span, rhs) ==
  CASE op = "Add" -> eval_binop_simple(S, "eval_binop_add")
    [] op = "AndL" ->
         IF Top(S.vals).v THEN push_expr(pop_val(S), rhs[1]) ELSE push_val(pop_val(S), BoolV(FALSE))
    [] op = "Div" -> eval_binop_with_error(S, span, "eval_binop_div")
    [] op = "Eq" -> eval_binop_eq(S, FALSE)
    [] op = "Gt" -> eval_binop_simple(S, "eval_binop_gt")
    [] op = "Gte" -> eval_binop_simple(S, "eval_binop_gte")
    [] op = "Lt" -> eval_binop_simple(S, "eval_binop_lt")
    [] op = "Lte" -> eval_binop_simple(S, "eval_binop_lte")
    [] op = "Mod" -> eval_binop_with_error(S, span, "eval_binop_mod")
    [] op = "Mul" -> eval_binop_simple(S, "eval_binop_mul")
    [] op = "Neq" -> eval_binop_eq(S, TRUE)
    [] op = "OrL" ->
         IF Top(S.vals).v THEN push_val(pop_val(S), BoolV(TRUE)) ELSE push_expr(pop_val(S), rhs[1])
    [] op = "Sub" -> eval_binop_simple(S, "eval_binop_sub")

(* bind_args_for_spec: for a controlled specialization the control arrays of the *)
(* ctl_count outer pairs are concatenated and bound to the specialization's      *)
(* pattern, the rest to the declaration's.                                       *)
RECURSIVE peel_ctls_outer_last(_, _, _)
peel_ctls_outer_last(tup, n, ctls) ==
  IF n = 0 THEN [ctls |-> ctls, tup |-> tup]
  ELSE peel_ctls_outer_last(tup.v[2], n - 1, tup.v[1].v \o ctls)
RECURSIVE peel_ctls(_, _, _)
peel_ctls(tup, n, ctls) ==
  IF n = 0 THEN [ctls |-> ctls, tup |-> tup]
  ELSE peel_ctls(tup.v[2], n - 1, ctls \o tup.v[1].v)
bind_args_for_spec(S, decl_pat, spec_pat, args_val, ctl_count, fixed_args) ==
  IF spec_pat # <<>>
    THEN LET p == peel_ctls(args_val, ctl_count, <<>>)
             S1 == bind_value(S, spec_pat[1], ArrV(FreshRc(S), p.ctls), "Immutable")
         IN bind_value(S1, decl_pat, merge_fixed_args(fixed_args, p.tup), "Immutable")
    ELSE bind_value(S, decl_pat, merge_fixed_args(fixed_args, args_val), "Immutable")

(* intrinsic::call: the Backend or the Receiver is handed the call; out keeps the *)
(* calls in the order they were made.                                            *)
intrinsic_call(S, name, arg) ==
  [S |-> [S EXCEPT !.out = Append(@, [name |-> name, arg |-> arg])], val |-> UnitV]

(* eval_call. *)
eval_call(S, callable_span, args_span) ==
  LET arg == Top(S.vals)
      callee_val == Top(Pop(S.vals))
      callee_id == callee_val.v.id
      functor == callee_val.v.functor
      fixed_args == IF callee_val.t = "Closure" THEN <<callee_val.v.fixed_args>> ELSE <<>>
      S1 == pop_val(pop_val(S))
      global == get_global(callee_id)
  IN IF global = <<>> THEN Raise(S1, "UnboundName", 0, to_global_span(S1, callable_span))
     ELSE IF global[1].kind = "Udt" THEN push_val(S1, arg)
     ELSE LET callee == global[1]
              spec == spec_from_functor_app(functor)
              S2 == push_scope(push_frame(S1, callee_id, functor))
              intrinsic == intrinsic_call(S2, callee.name, arg)
              spec_decl == CASE spec = "Body" -> callee.body
                             [] spec = "Adj" -> callee.adj[1]
                             [] spec = "Ctl" -> callee.ctl[1]
                             [] spec = "CtlAdj" -> callee.ctl_adj[1]
              S3 == bind_args_for_spec(S2, callee.input, spec_decl.input, arg,
                                       functor.controlled, fixed_args)
          IN IF callee.impl = "Intrinsic"
               THEN IF intrinsic.val = UnitV /\ callee.output # "Unit"
                      THEN Raise(intrinsic.S, "UnsupportedIntrinsicType", callee.name,
                                 to_global_span(S1, callee.span))
                      ELSE push_val(intrinsic.S, intrinsic.val)
               ELSE push_block(S3, spec_decl.block)

(* eval_field.  `expect` and the last arm panic: the State is left with the panic *)
(* in place of an error.                                                          *)
eval_field(S, field) ==
  LET record == Top(S.vals)
      S1 == pop_val(S)
      panic == Raise(S1, "panic", 0, to_global_span(S1, SpanDefault))
  IN CASE field.k = "Prim" /\ record.t = "Range" /\ field.prim = "Start" /\ record.v.start # <<>> ->
            push_val(S1, IntV(record.v.start[1]))
       [] field.k = "Prim" /\ record.t = "Range" /\ field.prim = "Step" ->
            push_val(S1, IntV(record.v.step))
       [] field.k = "Prim" /\ record.t = "Range" /\ field.prim = "End" /\ record.v.end # <<>> ->
            push_val(S1, IntV(record.v.end[1]))
       [] field.k = "Path" ->
            LET val == follow_field_path(record, field.indices)
            IN IF val.k = "Some" THEN push_val(S1, val.v) ELSE panic
       [] OTHER -> panic

eval_if(S, then_expr, else_expr) ==
  IF Top(S.vals).v THEN push_expr(pop_val(S), then_expr)
  ELSE IF else_expr # <<>> THEN push_expr(pop_val(S), else_expr[1])
  ELSE push_val(pop_val(S), UnitV)

eval_index(S, span) ==
  LET index_val == Top(S.vals)
      arr == Top(Pop(S.vals)).v
      S1 == pop_val(pop_val(S))
      r == IF index_val.t = "Int" THEN index_array(arr, index_val.v)
           ELSE slice_array(arr, index_val.v.start, index_val.v.step, index_val.v.end)
  IN IF ~r.ok THEN RaiseAt(S1, r, span)
     ELSE IF index_val.t = "Int" THEN push_val(S1, r.items[1])
     ELSE push_val(S1, ArrV(FreshRc(S1), r.items))

eval_range(S, has_start, has_step, has_end) ==
  LET end == IF has_end THEN <<Top(S.vals).v>> ELSE <<>>
      S1 == IF has_end THEN pop_val(S) ELSE S
      stp == IF has_step THEN Top(S1.vals).v ELSE DEFAULT_RANGE_STEP
      S2 == IF has_step THEN pop_val(S1) ELSE S1
      start == IF has_start THEN <<Top(S2.vals).v>> ELSE <<>>
      S3 == IF has_start THEN pop_val(S2) ELSE S2
  IN push_val(S3, RangeV(start, stp, end))

(* eval_ret as it would be if it left the actions of the dropped continuations. *)
RECURSIVE eval_ret_keep_actions(_)
eval_ret_keep_actions(S) ==
  IF S.cont_stack = <<>> THEN S
  ELSE LET cont == Top(S.cont_stack)
           S1 == [S EXCEPT !.cont_stack = Pop(@)]
       IN CASE cont.k = "Frame" -> leave_frame(S1, cont.v)
            [] cont.k = "Scope" -> eval_ret_keep_actions([S1 EXCEPT !.env = env_leave_scope(@)])
            [] OTHER -> eval_ret_keep_actions(S1)

(* eval_ret: unwind to the nearest Frame, leaving scopes and dropping actions. *)
RECURSIVE eval_ret(_)
eval_ret(S) ==
  IF S.cont_stack = <<>> THEN S
  ELSE LET cont == Top(S.cont_stack)
           S1 == [S EXCEPT !.cont_stack = Pop(@)]
       IN CASE cont.k = "Frame" -> leave_frame(S1, cont.v)
            [] cont.k = "Scope" -> eval_ret([S1 EXCEPT !.env = env_leave_scope(@)])
            [] cont.k = "Action" -> eval_ret([S1 EXCEPT !.action_stack = Pop(@)])
            [] OTHER -> eval_ret(S1)

eval_update_index(S, span) ==
  LET values == Top(S.vals).v
      update == Top(Pop(S.vals))
      index == Top(Pop(Pop(S.vals)))
      S1 == pop_val(pop_val(pop_val(S)))
      r == eval_update_index_items(values, index, update)
  IN IF r.ok THEN push_val(S1, ArrV(FreshRc(S1), r.items)) ELSE RaiseAt(S1, r, span)

(* eval_update_index_in_place.  What the variable's array holds is written also when *)
(* the update fails part of the way through a range.                                 *)
eval_update_index_in_place(S, lhs_id, span) ==
  LET update == Top(S.vals)
      index == Top(Pop(S.vals))
      S1 == pop_val(pop_val(S))
      lhs == get_expr(S1.package, lhs_id)
      var == env_get(S1.env, lhs.res.id)
  IN IF index.t = "Int" /\ index.v < 0 THEN Raise(S1, "InvalidNegativeInt", index.v, to_global_span(S1, span))
     ELSE IF var = <<>> THEN Raise(S1, "UnboundName", 0, to_global_span(S1, lhs.span))
     ELSE LET r == eval_update_index_in_place_items(var[1].value.v, index, update)
              written == r.items # var[1].value.v
              rc == IF strong_count(S, var[1].value.rc) = 1 \/ ~written
                      THEN var[1].value.rc ELSE FreshRc(S)
              S2 == [S1 EXCEPT !.env = env_set(@, lhs.res.id, ArrV(rc, r.items))]
          IN IF r.ok THEN S2 ELSE RaiseAt(S2, r, span)

eval_update_field(S, field) ==
  LET value == Top(S.vals)
      record == Top(Pop(S.vals))
      S1 == pop_val(pop_val(S))
      panic == Raise(S1, "panic", 0, to_global_span(S1, SpanDefault))
  IN CASE field.k = "Prim" /\ record.t = "Range" /\ field.prim = "Start" ->
            push_val(S1, RangeV(<<value.v>>, record.v.step, record.v.end))
       [] field.k = "Prim" /\ record.t = "Range" /\ field.prim = "Step" ->
            push_val(S1, RangeV(record.v.start, value.v, record.v.end))
       [] field.k = "Prim" /\ record.t = "Range" /\ field.prim = "End" ->
            push_val(S1, RangeV(record.v.start, record.v.step, <<value.v>>))
       [] field.k = "Path" ->
            LET update == update_field_path(record, field.indices, value)
            IN IF update # <<>> THEN push_val(S1, update[1]) ELSE panic
       [] OTHER -> panic

(* eval_unop.  The overflow of the control count is taken up where a functor is *)
(* applied 256 times (ApplyFunctor); the programs of the store apply at most 3.  *)
eval_unop(S, op) ==
  LET val == Top(S.vals)
      S1 == pop_val(S)
  IN CASE op \in {"Adj", "Ctl"} ->
            push_val(S1, [val EXCEPT !.v.functor = update_functor_app(op, @)])
       [] op = "Neg" -> push_val(S1, IntV(-val.v))
       [] op = "NotB" -> push_val(S1, IntV(-val.v - 1))
       [] op = "NotL" -> push_val(S1, BoolV(~val.v))
       [] op \in {"Pos", "Unwrap"} -> push_val(S1, val)

eval_while(S, cond_expr, block) ==
  IF Top(S.vals).v
    THEN push_block(push_val(push_action(cont_while(pop_val(S), cond_expr, block),
                                         [a |-> "Consume"]), UnitV), block)
    ELSE push_val(pop_val(S), UnitV)

cont_action(S, action) ==
  CASE action.a = "Array" -> eval_arr(S, action.len)
    [] action.a = "ArrayAppendInPlace" -> eval_array_append_in_place(S, action.lhs)
    [] action.a = "ArrayRepeat" -> eval_arr_repeat(S, action.span)
    [] action.a = "Assign" -> eval_assign(S, action.lhs)
    [] action.a = "BinOp" -> eval_binop(S, action.op, action.span, action.rhs)
    [] action.a = "Bind" -> eval_bind(S, action.pat, action.mutability)
    [] action.a = "Call" -> eval_call(S, action.callable_span, action.args_span)
    [] action.a = "Consume" -> pop_val(S)
    [] action.a = "Fail" -> Raise(pop_val(S), "UserFail", Top(S.vals).v, to_global_span(S, action.span))
    [] action.a = "If" -> eval_if(S, action.then, action.else)
    [] action.a = "Index" -> eval_index(S, action.span)
    [] action.a = "Range" -> eval_range(S, action.has_start, action.has_step, action.has_end)
    [] action.a = "Return" -> eval_ret(S)
    [] action.a = "UpdateIndex" -> eval_update_index(S, action.span)
    [] action.a = "UpdateIndexInPlace" -> eval_update_index_in_place(S, action.lhs, action.span)
    [] action.a = "Tuple" -> eval_tup(S, action.len)
    [] action.a = "UnOp" -> eval_unop(S, action.op)
    [] action.a = "While" -> eval_while(S, action.cond, action.block)

---------------------------------------------------------------------------
(* State::eval, the driver loop, one action per iteration. *)

NoAction == [a |-> "None"]

(* The state after State::new(0, seed) and the push of the entry (the function eval). *)
StateNew(entry) ==
  [cont_stack |-> IF entry.kind = "Expr" THEN <<ContExpr_(entry.id)>> ELSE <<ContStmt_(entry.id)>>,
   action_stack |-> <<>>, vals |-> <<>>, package |-> 0, call_stack |-> <<>>,
   current_span |-> SpanDefault, env |-> EnvDefault, out |-> <<>>, err |-> <<>>]

Load(S) ==
  /\ cont_stack' = S.cont_stack
  /\ action_stack' = S.action_stack
  /\ vals' = S.vals
  /\ package' = S.package
  /\ call_stack' = S.call_stack
  /\ current_span' = S.current_span
  /\ env' = S.env
  /\ out' = S.out

Init ==
  /\ prog \in 1..Len(Programs)
  /\ params \in Programs[prog].params
  /\ LET S == StateNew(Programs[prog])
     IN /\ cont_stack = S.cont_stack
        /\ action_stack = S.action_stack
        /\ vals = S.vals
        /\ package = S.package
        /\ call_stack = S.call_stack
        /\ current_span = S.current_span
        /\ env = S.env
        /\ out = S.out
        /\ last = [k |-> "Init", id |-> 0, act |-> NoAction, pre |-> S, ret |-> <<>>]
  /\ mode = "idle"
  /\ step = "Continue"
  /\ current_frame = 0
  /\ breakpoints = <<>>
  /\ result = [k |-> "None"]
  /\ trace = <<>>
  /\ calls = <<>>

(* State::eval as it would be if each call began with an empty record of effects. *)
Eval_forgetting(s, bps) ==
  /\ mode = "idle"
  /\ mode' = "running"
  /\ step' = s
  /\ breakpoints' = bps
  /\ current_frame' = Len(call_stack)
  /\ out' = <<>>
  /\ last' = [k |-> "Eval", id |-> 0, act |-> NoAction, pre |-> St, ret |-> <<>>]
  /\ UNCHANGED <<cont_stack, action_stack, vals, package, call_stack, current_span, env,
                 result, trace, calls, prog, params>>

(* A call of State::eval by the host: on a fresh State, or again after a yield. *)
Eval(s, bps) ==
  /\ mode = "idle"
  /\ mode' = "running"
  /\ step' = s
  /\ breakpoints' = bps
  /\ current_frame' = Len(call_stack)
  /\ last' = [k |-> "Eval", id |-> 0, act |-> NoAction, pre |-> St, ret |-> <<>>]
  /\ UNCHANGED <<cont_stack, action_stack, vals, package, call_stack, current_span, env, out,
                 result, trace, calls, prog, params>>

(* `.map_err(|e| (e, self.get_stack_frames()))?` *)
Outcome(S) ==
  IF S.err # <<>>
    THEN /\ mode' = "done"
         /\ result' = [k |-> "Err", err |-> S.err[1], frames |-> get_stack_frames(S)]
    ELSE UNCHANGED <<mode, result>>

(* What the caller's state was when a frame was pushed, the frame's sentinel, and *)
(* the Action::Call that pushed it.                                              *)
CallRecord(S, S2) ==
  [depth |-> Len(S.call_stack), scopes |-> Len(S.env), package |-> S.package,
   action_stack |-> S.action_stack, cont_stack |-> S.cont_stack,
   len |-> S2.cont_stack[Len(S.cont_stack) + 1].v, call |-> Top(action_stack)]
Calls(S, S2) ==
  IF Len(S2.call_stack) > Len(S.call_stack) THEN Append(calls, CallRecord(S, S2))
  ELSE IF Len(S2.call_stack) < Len(S.call_stack) THEN Pop(calls)
  ELSE calls
Returned(S, S2) == IF Len(S2.call_stack) < Len(S.call_stack) THEN <<Top(calls)>> ELSE <<>>

ContActionStep ==
  /\ mode = "running"
  /\ cont_stack # <<>>
  /\ Top(cont_stack).k = "Action"
  /\ LET action == Top(action_stack)
         S == [St EXCEPT !.cont_stack = Pop(@), !.action_stack = Pop(@)]
         S2 == cont_action(S, action)
     IN /\ Load(S2)
        /\ Outcome(S2)
        /\ calls' = Calls(S, S2)
        /\ last' = [k |-> "Action", id |-> 0, act |-> action, pre |-> S, ret |-> Returned(S, S2)]
  /\ UNCHANGED <<step, current_frame, breakpoints, trace, prog, params>>

ContExprStep ==
  /\ mode = "running"
  /\ cont_stack # <<>>
  /\ Top(cont_stack).k = "Expr"
  /\ LET expr == Top(cont_stack).v
         S == [St EXCEPT !.cont_stack = Pop(@)]
         S2 == cont_expr(S, expr)
     IN /\ Load(S2)
        /\ Outcome(S2)
        /\ trace' = Append(trace, <<package, expr, Len(vals)>>)
        /\ last' = [k |-> "Expr", id |-> expr, act |-> NoAction, pre |-> S, ret |-> <<>>]
  /\ UNCHANGED <<step, current_frame, breakpoints, calls, prog, params>>

ContFrameStep ==
  /\ mode = "running"
  /\ cont_stack # <<>>
  /\ Top(cont_stack).k = "Frame"
  /\ LET S == [St EXCEPT !.cont_stack = Pop(@)]
         S2 == leave_frame(S, Top(cont_stack).v)
     IN /\ Load(S2)
        /\ calls' = Calls(S, S2)
        /\ last' = [k |-> "Frame", id |-> 0, act |-> NoAction, pre |-> S, ret |-> Returned(S, S2)]
  /\ UNCHANGED <<mode, result, step, current_frame, breakpoints, trace, prog, params>>

ContScopeStep ==
  /\ mode = "running"
  /\ cont_stack # <<>>
  /\ Top(cont_stack).k = "Scope"
  /\ LET S == [St EXCEPT !.cont_stack = Pop(@)]
     IN /\ Load([S EXCEPT !.env = env_leave_scope(@)])
        /\ last' = [k |-> "Scope", id |-> 0, act |-> NoAction, pre |-> S, ret |-> <<>>]
  /\ UNCHANGED <<mode, result, step, current_frame, breakpoints, trace, calls, prog, params>>

(* The Cont::Stmt arm as it would be with the breakpoints looked at after the skip *)
(* of generated code.                                                             *)
stmt_result_skip_first(bps, s, d0, S, stmt) ==
  IF S.current_span = SpanDefault THEN <<>>
  ELSE IF \E i \in 1..Len(bps) : bps[i] = stmt
    THEN <<[k |-> "BreakpointHit", bp |-> stmt]>>
  ELSE IF s = "In" THEN <<[k |-> "StepIn"]>>
  ELSE IF s = "Next" /\ d0 >= Len(S.call_stack) THEN <<[k |-> "Next"]>>
  ELSE IF s = "Out" /\ d0 > Len(S.call_stack) THEN <<[k |-> "StepOut"]>>
  ELSE <<>>

(* The Cont::Stmt arm as it would be with `>` for `>=` in the test of Next. *)
stmt_result_strict(bps, s, d0, S, stmt) ==
  IF \E i \in 1..Len(bps) : bps[i] = stmt
    THEN <<[k |-> "BreakpointHit", bp |-> stmt]>>
  ELSE IF S.current_span = SpanDefault THEN <<>>
  ELSE IF s = "In" THEN <<[k |-> "StepIn"]>>
  ELSE IF s = "Next" /\ d0 > Len(S.call_stack) THEN <<[k |-> "Next"]>>
  ELSE IF s = "Out" /\ d0 > Len(S.call_stack) THEN <<[k |-> "StepOut"]>>
  ELSE <<>>

(* The Cont::Stmt arm as it would be without the skip of generated code. *)
stmt_result_generated(bps, s, d0, S, stmt) ==
  IF \E i \in 1..Len(bps) : bps[i] = stmt
    THEN <<[k |-> "BreakpointHit", bp |-> stmt]>>
  ELSE IF s = "In" THEN <<[k |-> "StepIn"]>>
  ELSE IF s = "Next" /\ d0 >= Len(S.call_stack) THEN <<[k |-> "Next"]>>
  ELSE IF s = "Out" /\ d0 > Len(S.call_stack) THEN <<[k |-> "StepOut"]>>
  ELSE <<>>

(* What the Cont::Stmt arm yields after cont_stmt, <<>> when the loop continues. *)
stmt_result(bps, s, d0, S, stmt) ==
  IF \E i \in 1..Len(bps) : bps[i] = stmt
    THEN <<[k |-> "BreakpointHit", bp |-> stmt]>>
  ELSE IF S.current_span = SpanDefault THEN <<>>
  ELSE IF s = "In" THEN <<[k |-> "StepIn"]>>
  ELSE IF s = "Next" /\ d0 >= Len(S.call_stack) THEN <<[k |-> "Next"]>>
  ELSE IF s = "Out" /\ d0 > Len(S.call_stack) THEN <<[k |-> "StepOut"]>>
  ELSE <<>>

ContStmtStep ==
  /\ mode = "running"
  /\ cont_stack # <<>>
  /\ Top(cont_stack).k = "Stmt"
  /\ LET stmt == Top(cont_stack).v
         S == [St EXCEPT !.cont_stack = Pop(@)]
         S2 == cont_stmt(S, stmt)
         res == stmt_result(breakpoints, step, current_frame, S2, stmt)
     IN /\ Load(S2)
        /\ IF res = <<>> THEN UNCHANGED <<mode, result>>
           ELSE mode' = "idle" /\ result' = res[1]
        /\ last' = [k |-> "Stmt", id |-> stmt, act |-> NoAction, pre |-> S, ret |-> <<>>]
  /\ UNCHANGED <<step, current_frame, breakpoints, trace, calls, prog, params>>

(* The loop has run out of continuations: Ok(StepResult::Return(self.get_result())). *)
Finish ==
  /\ mode = "running"
  /\ cont_stack = <<>>
  /\ mode' = "done"
  /\ IF vals = <<>> THEN result' = [k |-> "Panic"] /\ vals' = vals
     ELSE result' = [k |-> "Return", value |-> Top(vals)] /\ vals' = Pop(vals)
  /\ last' = [k |-> "Finish", id |-> 0, act |-> NoAction, pre |-> St, ret |-> <<>>]
  /\ UNCHANGED <<cont_stack, action_stack, package, call_stack, current_span, env, out,
                 step, current_frame, breakpoints, trace, calls, prog, params>>

Next ==
  \/ \E s \in StepActions, bps \in BreakpointLists : Eval(s, bps)
  \/ ContActionStep
  \/ ContExprStep
  \/ ContFrameStep
  \/ ContScopeStep
  \/ ContStmtStep
  \/ Finish

Spec == Init /\ [][Next]_vars

---------------------------------------------------------------------------
(* The two array updates side by side.  SpecUpd draws an array, an index and an *)
(* update value, binds the array to the mutable local `a` of the `arrays`       *)
(* program and applies `set a w/= index <- update` to that state by each path:  *)
(* UpdateIndexInPlace, and UpdateIndex followed by Assign.                      *)
MaxLen == 3           \* longest array, and largest position, of SpecUpd
MaxUpd == 2           \* longest update array of SpecUpd

(* The assignment `set a w/= P <- 5`: its target expression, its index expression *)
(* and the local its target names.                                               *)
UpdTarget == [lhs |-> 68, mid |-> 69, var |-> 7]

UpdArrays == {[i \in 1..n |-> IntV(i)] : n \in 0..MaxLen}
UpdPositions == {<<>>} \cup {<<i>> : i \in -1..MaxLen}
UpdInputs ==
  {[index |-> IntV(i), update |-> IntV(9)] : i \in -1..MaxLen}
  \cup {[index |-> RangeV(s, t, e), update |-> ArrV(2, [i \in 1..n |-> IntV(9)])] :
          s \in UpdPositions, t \in {-1, 0, 1, 2}, e \in UpdPositions, n \in 0..MaxUpd}

(* The state in which the action of the assignment fires; operands are what the *)
(* sub-expressions left on the value stack above the Unit of the assignment.    *)
UpdState(operands) ==
  [St EXCEPT !.vals = <<UnitV>> \o operands]

(* What a path did: whether it succeeded, the kind of its error, the variable after it. *)
UpdOutcome(S) ==
  [ok |-> S.err = <<>>,
   kind |-> IF S.err = <<>> THEN "" ELSE S.err[1].kind,
   value |-> env_get(S.env, UpdTarget.var)[1].value]

InitUpd ==
  /\ prog = 6
  /\ params = Pm(0, FALSE, FALSE)
  /\ cont_stack = <<>>
  /\ action_stack = <<>>
  /\ vals = <<>>
  /\ package = 0
  /\ call_stack = <<>>
  /\ current_span = SpanDefault
  /\ \E arr \in UpdArrays :
       env = <<[bindings |-> <<[id |-> UpdTarget.var, name |-> "a", value |-> ArrV(1, arr),
                                mutability |-> "Mutable", span |-> Sp(604, 605)]>>,
                frame_id |-> 0]>>
  /\ out = <<>>
  /\ mode = "update"
  /\ step = "Continue"
  /\ current_frame = 0
  /\ breakpoints = <<>>
  /\ \E input \in UpdInputs :
       result = [k |-> "Update", index |-> input.index, update |-> input.update,
                 in_place |-> <<>>, copying |-> <<>>]
  /\ last = [k |-> "Init", id |-> 0, act |-> NoAction, pre |-> StateNew(Programs[6]), ret |-> <<>>]
  /\ trace = <<>>
  /\ calls = <<>>

(* Action::UpdateIndexInPlace(lhs, span) *)
ApplyInPlace ==
  /\ mode = "update"
  /\ result.in_place = <<>>
  /\ LET S == UpdState(<<result.index, result.update>>)
         S2 == eval_update_index_in_place(S, UpdTarget.lhs, get_expr(0, UpdTarget.mid).span)
     IN result' = [result EXCEPT !.in_place = <<UpdOutcome(S2)>>]
  /\ UNCHANGED <<cont_stack, action_stack, vals, package, call_stack, current_span, env, out,
                 mode, step, current_frame, breakpoints, last, trace, calls, prog, params>>

(* Action::UpdateIndex(span), then Action::Assign(lhs) *)
ApplyCopying ==
  /\ mode = "update"
  /\ result.copying = <<>>
  /\ LET S == UpdState(<<result.index, result.update, env_get(env, UpdTarget.var)[1].value>>)
         S2 == eval_update_index(S, get_expr(0, UpdTarget.mid).span)
         S3 == IF S2.err = <<>> THEN eval_assign(S2, UpdTarget.lhs) ELSE S2
     IN result' = [result EXCEPT !.copying = <<UpdOutcome(S3)>>]
  /\ UNCHANGED <<cont_stack, action_stack, vals, package, call_stack, current_span, env, out,
                 mode, step, current_frame, breakpoints, last, trace, calls, prog, params>>

NextUpd == ApplyInPlace \/ ApplyCopying

SpecUpd == InitUpd /\ [][NextUpd]_vars

---------------------------------------------------------------------------
(* Properties. *)

IsBreakpoint(stmt) == \E i \in 1..Len(breakpoints) : breakpoints[i] = stmt
Yielded(kind) == mode = "idle" /\ result.k = kind
StmtDispatched == last.k = "Stmt"
ActionFired(names) == last.k = "Action" /\ last.act.a \in names

(* C1 (as amended): a full run ends with a single Return(value) or with a single   *)
(* error paired with a frame list that holds one frame for each call active when   *)
(* the error was raised, outermost first, the innermost carrying the current span; *)
(* the list is empty when the error was raised outside of every callable.          *)
ThmC1 ==
  mode = "done" =>
    \/ result.k = "Return"
    \/ /\ result.k = "Err"
       /\ Len(result.frames) = Len(call_stack)
       /\ \A i \in 1..Len(call_stack) : result.frames[i].id = call_stack[i].id
       /\ call_stack # <<>> => Top(result.frames).span = current_span

(* An error raised two calls deep, with its two frames. *)
WitC1 == mode = "done" /\ result.k = "Err" /\ Len(result.frames) = 2

(* C1 as stated: the frame list of an error is never empty. *)
CexC1 ==
  mode = "done" => (result.k = "Return" \/ (result.k = "Err" /\ result.frames # <<>>))

(* C2: when the continuation stack has become empty exactly one value is on the *)
(* value stack, so the value stack is empty once get_result has taken it.       *)
CexC2 ==
  /\ (mode = "running" /\ cont_stack = <<>>) => Len(vals) = 1
  /\ (mode = "done" /\ result.k = "Return") => vals = <<>>

(* C3: the environment holds exactly the root scope when a run has terminated, *)
(* with a value, through an explicit return or with an error.                  *)
CexC3 == mode = "done" => Len(env) = 1

(* C4: when a call has returned, by its body running out or by a Return action at *)
(* any depth of blocks, the call stack and the environment are as deep as before  *)
(* the call, the package is the caller's, the action and continuation stacks hold *)
(* what the caller had pending, and the value stack holds len values below the    *)
(* result of the call, len being the length the Frame sentinel recorded.          *)
ThmC4 ==
  last.ret # <<>> =>
    LET c == last.ret[1]
    IN /\ Len(call_stack) = c.depth
       /\ Len(env) = c.scopes
       /\ package = c.package
       /\ action_stack = c.action_stack
       /\ cont_stack = c.cont_stack
       /\ Len(vals) = c.len + 1
       /\ Top(vals) = Top(last.pre.vals)
       /\ SubSeq(vals, 1, c.len) = SubSeq(last.pre.vals, 1, c.len)

(* A Return action fired inside two nested blocks of the callee, or with an operand *)
(* of a pending operator on the value stack.                                        *)
WitC4 ==
  /\ last.ret # <<>>
  /\ ActionFired({"Return"})
  /\ \/ Len(last.pre.env) >= last.ret[1].scopes + 3
     \/ Len(last.pre.vals) > last.ret[1].len + 1

(* C5: at a dispatched statement that is visible and no breakpoint, Next yields    *)
(* StepResult::Next iff the call stack is at most as deep as when eval was         *)
(* entered, Out yields StepOut iff it is less deep, and Continue does not yield;   *)
(* a call of eval with Continue and no breakpoints yields nowhere and ends with a  *)
(* value or an error.                                                              *)
ThmC5 ==
  /\ (StmtDispatched /\ ~IsBreakpoint(last.id) /\ current_span # SpanDefault) =>
       /\ step = "Next" => (Yielded("Next") <=> Len(call_stack) <= current_frame)
       /\ step = "Next" => (mode = "idle" => result.k = "Next")
       /\ step = "Out" => (Yielded("StepOut") <=> Len(call_stack) < current_frame)
       /\ step = "Out" => (mode = "idle" => result.k = "StepOut")
       /\ step = "Continue" => mode = "running"
  /\ (step = "Continue" /\ breakpoints = <<>> /\ last.k # "Init") =>
       /\ mode # "idle"
       /\ mode = "done" => result.k \in {"Return", "Err"}

(* Out yields at the first statement of the caller after the callee has returned. *)
WitC5 ==
  /\ StmtDispatched /\ ~IsBreakpoint(last.id)
  /\ step = "Out" /\ Yielded("StepOut") /\ Len(call_stack) < current_frame

(* C6 (as amended): with In, eval yields at every dispatched statement whose span *)
(* is not empty, BreakpointHit if the statement is one of the breakpoints and     *)
(* StepIn otherwise; a statement with an empty span that is no breakpoint yields  *)
(* under no step action.                                                          *)
ThmC6 ==
  StmtDispatched =>
    /\ (step = "In" /\ current_span.lo < current_span.hi) =>
         Yielded(IF IsBreakpoint(last.id) THEN "BreakpointHit" ELSE "StepIn")
    /\ (~IsBreakpoint(last.id) /\ current_span.lo = current_span.hi) => mode = "running"

(* With In, a statement of generated code is passed, and a visible one yields StepIn. *)
WitC6 ==
  /\ StmtDispatched /\ step = "In" /\ ~IsBreakpoint(last.id)
  /\ \/ current_span.lo = current_span.hi /\ mode = "running"
     \/ current_span.lo < current_span.hi /\ Yielded("StepIn") /\ Len(call_stack) = 2

(* C6 as stated: with In, every dispatched statement whose span is not empty yields StepIn. *)
CexC6 ==
  StmtDispatched =>
    /\ (step = "In" /\ current_span.lo < current_span.hi) => Yielded("StepIn")
    /\ (~IsBreakpoint(last.id) /\ current_span.lo = current_span.hi) => mode = "running"

(* C7: an in-place action (UpdateIndexInPlace, ArrayAppendInPlace) fires only on an *)
(* array that its variable alone holds at that moment, and leaves every other value *)
(* that shares the array as it was.                                                 *)
InPlaceTarget == env_get(last.pre.env, get_expr(last.pre.package, last.act.lhs).res.id)[1].value
CexC7 ==
  ActionFired({"UpdateIndexInPlace", "ArrayAppendInPlace"}) =>
    /\ strong_count(last.pre, InPlaceTarget.rc) = 1
    /\ \A i \in 1..Len(vals) : vals[i] = last.pre.vals[i]

(* C8: for every array, index and update value, UpdateIndexInPlace and UpdateIndex *)
(* followed by assignment both succeed or both fail, leave the variable with the   *)
(* same array when they succeed and fail with the same kind of error.              *)
CexC8 ==
  (mode = "update" /\ result.in_place # <<>> /\ result.copying # <<>>) =>
    LET a == result.in_place[1]
        b == result.copying[1]
    IN /\ a.ok = b.ok
       /\ a.ok => ValEq(a.value, b.value)
       /\ ~a.ok => a.kind = b.kind

(* C9: the sub-expressions a node schedules are evaluated in the order of the *)
(* source: those it pushed, read from the top of the continuation stack, lie  *)
(* one after another in the source.                                           *)
Scheduled ==
  LET pushed == SubSeq(cont_stack, Len(last.pre.cont_stack) + 1, Len(cont_stack))
  IN Rev(SelectSeq(pushed, LAMBDA c : c.k = "Expr"))
CexC9 ==
  (last.k = "Expr" /\ mode = "running") =>
    \A i \in 1..(Len(Scheduled) - 1) :
      get_expr(package, Scheduled[i].v).span.hi <= get_expr(package, Scheduled[i + 1].v).span.lo

(* C10: a logical operator schedules its LHS alone, above its action; when the    *)
(* action fires on a false LHS of `and` or a true LHS of `or` the LHS value is    *)
(* the result and nothing is scheduled, otherwise the RHS is scheduled in place   *)
(* of the LHS value; the `logic` program returns (B1 and B2, B1 or B2) and has    *)
(* dispatched the RHS of `and` iff B1 and the RHS of `or` iff not B1.             *)
LogicalNode == last.k = "Expr" /\ get_expr(last.pre.package, last.id).kind = "BinOp"
               /\ get_expr(last.pre.package, last.id).op \in {"AndL", "OrL"}
Dispatched(p, e) == \E i \in 1..Len(trace) : trace[i][1] = p /\ trace[i][2] = e
ThmC10 ==
  /\ LogicalNode =>
       /\ cont_stack = last.pre.cont_stack
                         \o <<ContAction_, ContExpr_(get_expr(last.pre.package, last.id).lhs)>>
       /\ Top(action_stack).rhs = <<get_expr(last.pre.package, last.id).rhs>>
  /\ (ActionFired({"BinOp"}) /\ last.act.op \in {"AndL", "OrL"}) =>
       LET lhs_val == Top(last.pre.vals).v
       IN IF lhs_val = (last.act.op = "OrL")
            THEN /\ vals = Append(Pop(last.pre.vals), BoolV(lhs_val))
                 /\ cont_stack = last.pre.cont_stack
            ELSE /\ vals = Pop(last.pre.vals)
                 /\ cont_stack = Append(last.pre.cont_stack, ContExpr_(last.act.rhs[1]))
  /\ (mode = "done" /\ Programs[prog].name = "logic") =>
       /\ result.k = "Return"
       /\ result.value = TupV(<<BoolV(params.B1 /\ params.B2), BoolV(params.B1 \/ params.B2)>>)
       /\ Dispatched(0, 40) <=> params.B1
       /\ Dispatched(0, 43) <=> ~params.B1

(* `B1 and B2` with B1 false: the action left false as the result and the RHS has *)
(* not been dispatched.                                                            *)
WitC10 ==
  /\ ActionFired({"BinOp"}) /\ last.act.op = "AndL"
  /\ Top(last.pre.vals) = BoolV(FALSE)
  /\ Top(vals) = BoolV(FALSE)
  /\ ~Dispatched(0, 40)

---------------------------------------------------------------------------
(* C11: the block a call runs is the one the table gives for the callee's    *)
(* FunctorApp: (adjoint = false, controlled = 0) the body, (true, 0) the     *)
(* adjoint, (false, n > 0) the controlled and (true, n > 0) the controlled   *)
(* adjoint specialization; a callee written `Adjoint Adjoint f` runs the     *)
(* body of f.                                                                *)
CallPushedFrame ==
  /\ ActionFired({"Call"}) /\ Len(call_stack) = Len(last.pre.call_stack) + 1
  /\ get_global(Top(call_stack).id)[1].impl = "Spec"
CalleeExpr ==
  LET p == last.pre.package
      n == IF p = 0 THEN Len(Exprs0) ELSE Len(Exprs1)
      e == CHOOSE e \in 1..n : /\ get_expr(p, e).kind = "Call"
                               /\ get_expr(p, get_expr(p, e).callee).span = last.act.callable_span
  IN get_expr(p, get_expr(p, e).callee)
FirstStmtOf(decl) == ContStmt_(get_block(package, decl.block).stmts[1])
ThmC11 ==
  CallPushedFrame =>
    LET frame == Top(call_stack)
        callee == get_global(frame.id)[1]
        adjoint == frame.functor.adjoint
        n == frame.functor.controlled
    IN /\ (~adjoint /\ n = 0) => Top(cont_stack) = FirstStmtOf(callee.body)
       /\ (adjoint /\ n = 0) => Top(cont_stack) = FirstStmtOf(callee.adj[1])
       /\ (~adjoint /\ n > 0) => Top(cont_stack) = FirstStmtOf(callee.ctl[1])
       /\ (adjoint /\ n > 0) => Top(cont_stack) = FirstStmtOf(callee.ctl_adj[1])
       /\ ( /\ CalleeExpr.kind = "UnOp" /\ CalleeExpr.op = "Adj"
            /\ get_expr(last.pre.package, CalleeExpr.expr).kind = "UnOp"
            /\ get_expr(last.pre.package, CalleeExpr.expr).op = "Adj"
            /\ get_expr(last.pre.package, get_expr(last.pre.package, CalleeExpr.expr).expr).kind = "Var" )
            => Top(cont_stack) = FirstStmtOf(callee.body)

(* `Adjoint Adjoint Op(1)` has pushed the frame of Op and the statement `100;` *)
(* of its body, which is not the statement of its adjoint specialization.      *)
WitC11 ==
  /\ CallPushedFrame
  /\ CalleeExpr = get_expr(0, 118)
  /\ Top(call_stack).id = [package |-> 0, item |-> 4]
  /\ get_global(Top(call_stack).id)[1].adj # <<>>
  /\ Top(cont_stack) = FirstStmtOf(get_global(Top(call_stack).id)[1].body)
  /\ Top(cont_stack) # FirstStmtOf(get_global(Top(call_stack).id)[1].adj[1])
---------------------------------------------------------------------------
(* Functor application on its own: a callable value, and Action::UnOp with *)
(* Functor(Adj) or Functor(Ctl) applied to it over and over.               *)

MaxAdj == 3
MaxCtl == 256

(* A State that is not running a program, for the operations taken on their own. *)
Detached(m, r) ==
  /\ prog = 1
  /\ params = Pm(0, FALSE, FALSE)
  /\ cont_stack = <<>>
  /\ action_stack = <<>>
  /\ vals = <<>>
  /\ package = 0
  /\ call_stack = <<>>
  /\ current_span = SpanDefault
  /\ env = EnvDefault
  /\ out = <<>>
  /\ mode = m
  /\ step = "Continue"
  /\ current_frame = 0
  /\ breakpoints = <<>>
  /\ result = r
  /\ last = [k |-> "Init", id |-> 0, act |-> NoAction, pre |-> StateNew(Programs[1]), ret |-> <<>>]
  /\ trace = <<>>
  /\ calls = <<>>
OnlyResult ==
  UNCHANGED <<cont_stack, action_stack, vals, package, call_stack, current_span, env, out,
              mode, step, current_frame, breakpoints, last, trace, calls, prog, params>>

(* The callable values a functor is applied to: what resolve_binding gives for an *)
(* item, and a closure over it.                                                   *)
Callables ==
  {GlobalV([package |-> 0, item |-> 4], FunctorAppDefault),
   ClosureV(<<IntV(1)>>, [package |-> 0, item |-> 4], FunctorAppDefault)}

InitFunctor ==
  \E c \in Callables :
    Detached("functor", [k |-> "Functor", callee |-> c, val |-> c, adj |-> 0, ctl |-> 0,
                         panicked |-> FALSE])

(* Action::UnOp(UnOp::Functor(functor)) on the value: eval_unop, with the outcome *)
(* of an overflowing addition left to the build.                                  *)
ApplyFunctor(functor) ==
  /\ mode = "functor"
  /\ ~result.panicked
  /\ IF functor = "Adj" THEN result.adj < MaxAdj ELSE result.ctl < MaxCtl
  /\ LET S == eval_unop([StateNew(Programs[1]) EXCEPT !.cont_stack = <<>>, !.vals = <<result.val>>],
                        functor)
         counted == [result EXCEPT !.adj = IF functor = "Adj" THEN @ + 1 ELSE @,
                                   !.ctl = IF functor = "Ctl" THEN @ + 1 ELSE @]
     IN \/ /\ ~add_overflows(functor, result.val.v.functor)
           /\ result' = [counted EXCEPT !.val = Top(S.vals)]
        \/ /\ add_overflows(functor, result.val.v.functor)
           /\ \E overflow_checks \in BOOLEAN :
                result' = IF overflow_checks THEN [counted EXCEPT !.panicked = TRUE]
                          ELSE [counted EXCEPT !.val = Top(S.vals)]
  /\ OnlyResult

NextFunctor == ApplyFunctor("Adj") \/ ApplyFunctor("Ctl")

SpecFunctor == InitFunctor /\ [][NextFunctor]_vars

(* C12: a functor applied to a Global or Closure composes into its FunctorApp:   *)
(* after any applications of Adj and Ctl the value is the callee with adjoint    *)
(* toggled once per Adj and controlled raised by one per Ctl, so that Adj twice  *)
(* is the identity and n applications of Ctl raise controlled by n, for every n. *)
CexC12 ==
  mode = "functor" =>
    /\ ~result.panicked
    /\ result.val = [result.callee EXCEPT
                       !.v.functor = [adjoint |-> result.adj % 2 = 1,
                                      controlled |-> result.callee.v.functor.controlled + result.ctl]]
---------------------------------------------------------------------------
(* Index and UpdateIndex on their own: Action::Index and Action::UpdateIndex *)
(* fired on operands that are already on the value stack.                    *)

(* The state in which an action fires on the operands its sub-expressions left. *)
Operands(operands) ==
  [StateNew(Programs[1]) EXCEPT !.cont_stack = <<>>, !.vals = operands]
(* What the action did: the value it pushed, or the error it raised. *)
ValOutcome(S) ==
  IF S.err = <<>> THEN [ok |-> TRUE, value |-> Top(S.vals), kind |-> "", span |-> SpanDefault]
  ELSE [ok |-> FALSE, value |-> UnitV, kind |-> S.err[1].kind, span |-> S.err[1].span.span]

InitArr ==
  \E arr \in UpdArrays, i \in -1..MaxLen, v \in {IntV(9), TupV(<<IntV(1), BoolV(TRUE)>>)} :
    Detached("array", [k |-> "Array", a |-> ArrV(1, arr), i |-> IntV(i), v |-> v,
                       updated |-> <<>>, read |-> <<>>, read_back |-> <<>>, restored |-> <<>>])

(* UpdateIndex(a, i, v); Index(a, i); Index of the updated array at i; UpdateIndex *)
(* of a at i with what Index read there.                                           *)
ApplyArr(op) ==
  /\ mode = "array"
  /\ result[op] = <<>>
  /\ op = "read_back" => (result.updated # <<>> /\ result.updated[1].ok)
  /\ op = "restored" => (result.read # <<>> /\ result.read[1].ok)
  /\ LET span == get_expr(0, UpdTarget.mid).span
         S == CASE op = "updated" ->
                     eval_update_index(Operands(<<result.i, result.v, result.a>>), span)
                [] op = "read" -> eval_index(Operands(<<result.a, result.i>>), span)
                [] op = "read_back" ->
                     eval_index(Operands(<<result.updated[1].value, result.i>>), span)
                [] op = "restored" ->
                     eval_update_index(Operands(<<result.i, result.read[1].value, result.a>>), span)
     IN result' = [result EXCEPT ![op] = <<ValOutcome(S)>>]
  /\ OnlyResult

NextArr == \E op \in {"updated", "read", "read_back", "restored"} : ApplyArr(op)

SpecArr == InitArr /\ [][NextArr]_vars

(* C13: for every array a, Int index i with 0 <= i < len(a) and value v: the     *)
(* update succeeds, Index(UpdateIndex(a, i, v), i) is v, every other position of *)
(* UpdateIndex(a, i, v) is that of a, and UpdateIndex(a, i, Index(a, i)) is a as *)
(* a value.                                                                      *)
ThmC13 ==
  (mode = "array" /\ 0 <= result.i.v /\ result.i.v < Len(result.a.v)) =>
    /\ result.updated # <<>> =>
         /\ result.updated[1].ok
         /\ result.updated[1].value.t = "Array"
         /\ Len(result.updated[1].value.v) = Len(result.a.v)
         /\ \A j \in 1..Len(result.a.v) :
              result.updated[1].value.v[j] = IF j = result.i.v + 1 THEN result.v ELSE result.a.v[j]
    /\ result.read # <<>> => (result.read[1].ok /\ result.read[1].value = result.a.v[result.i.v + 1])
    /\ result.read_back # <<>> => (result.read_back[1].ok /\ ValEq(result.read_back[1].value, result.v))
    /\ result.restored # <<>> => (result.restored[1].ok /\ ValEq(result.restored[1].value, result.a))

(* [1, 2, 3] updated at its middle position, read back there, and restored from *)
(* what was read.                                                               *)
WitC13 ==
  /\ mode = "array"
  /\ Len(result.a.v) = 3 /\ result.i = IntV(1)
  /\ result.updated # <<>> /\ result.updated[1].value.v[2] = result.v
  /\ result.read_back # <<>> /\ result.read_back[1].value = result.v
  /\ result.read # <<>> /\ result.read[1].value = IntV(2)
  /\ result.restored # <<>> /\ result.restored[1].value.v = result.a.v
---------------------------------------------------------------------------
(* Field and UpdateField on their own: Action::Field and Action::UpdateField *)
(* fired on a record value with a field path.                                *)

MaxPath == 3

(* Record values (tuples, as a value of a user-defined type is) and field paths. *)
Records ==
  {TupV(<<IntV(1), IntV(2)>>),
   TupV(<<IntV(1), TupV(<<IntV(2), BoolV(TRUE)>>)>>),
   TupV(<<TupV(<<IntV(1), IntV(2)>>), ArrV(1, <<IntV(4)>>), TupV(<<IntV(5), TupV(<<IntV(6), IntV(7)>>)>>)>>),
   TupV(<<UnitV, TupV(<<TupV(<<IntV(3)>>)>>)>>)}
FieldPaths == UNION {[1..n -> 0..(MaxLen - 1)] : n \in 0..MaxPath}

InitField ==
  \E r \in Records, p \in FieldPaths, v \in {IntV(9), TupV(<<IntV(8), IntV(9)>>)} :
    Detached("field", [k |-> "Field", r |-> r, p |-> p, v |-> v,
                       updated |-> <<>>, read |-> <<>>, read_back |-> <<>>, restored |-> <<>>])

(* UpdateField(r, p, v); Field(r, p); Field of the updated record at p; UpdateField *)
(* of r at p with what Field read there.                                            *)
ApplyField(op) ==
  /\ mode = "field"
  /\ result[op] = <<>>
  /\ op = "read_back" => (result.updated # <<>> /\ result.updated[1].ok)
  /\ op = "restored" => (result.read # <<>> /\ result.read[1].ok)
  /\ LET field == [k |-> "Path", indices |-> result.p, prim |-> ""]
         S == CASE op = "updated" -> eval_update_field(Operands(<<result.r, result.v>>), field)
                [] op = "read" -> eval_field(Operands(<<result.r>>), field)
                [] op = "read_back" -> eval_field(Operands(<<result.updated[1].value>>), field)
                [] op = "restored" ->
                     eval_update_field(Operands(<<result.r, result.read[1].value>>), field)
     IN result' = [result EXCEPT ![op] = <<ValOutcome(S)>>]
  /\ OnlyResult

NextField == \E op \in {"updated", "read", "read_back", "restored"} : ApplyField(op)

SpecField == InitField /\ [][NextField]_vars

(* C14: for every record r and valid field path p: UpdateField(r, p, Field(r, p)) *)
(* is r, Field(UpdateField(r, p, v), p) is v, and every component of r that lies  *)
(* off the path is the same in UpdateField(r, p, v).                              *)
RECURSIVE ValidPath(_, _)
ValidPath(r, p) ==
  \/ p = <<>>
  \/ r.t = "Tuple" /\ p[1] < Len(r.v) /\ ValidPath(r.v[p[1] + 1], Tail(p))
RECURSIVE Component(_, _)
Component(r, p) == IF p = <<>> THEN r ELSE Component(r.v[p[1] + 1], Tail(p))
IsPrefix(p, q) == Len(p) <= Len(q) /\ SubSeq(q, 1, Len(p)) = p
ThmC14 ==
  (mode = "field" /\ ValidPath(result.r, result.p)) =>
    /\ result.read # <<>> =>
         (result.read[1].ok /\ result.read[1].value = Component(result.r, result.p))
    /\ result.restored # <<>> => (result.restored[1].ok /\ result.restored[1].value = result.r)
    /\ result.read_back # <<>> => (result.read_back[1].ok /\ result.read_back[1].value = result.v)
    /\ result.updated # <<>> =>
         /\ result.updated[1].ok
         /\ \A q \in FieldPaths :
              (ValidPath(result.r, q) /\ ~IsPrefix(q, result.p) /\ ~IsPrefix(result.p, q)) =>
                /\ ValidPath(result.updated[1].value, q)
                /\ Component(result.updated[1].value, q) = Component(result.r, q)

(* The component at path [2, 1, 0] of ((1, 2), [4], (5, (6, 7))) replaced by a  *)
(* tuple, read back, and the record restored from what was read at the path.    *)
WitC14 ==
  /\ mode = "field"
  /\ result.p = <<2, 1, 0>> /\ ValidPath(result.r, result.p)
  /\ result.v = TupV(<<IntV(8), IntV(9)>>)
  /\ result.read # <<>> /\ result.read[1].value = IntV(6)
  /\ result.updated # <<>> /\ result.updated[1].ok /\ result.updated[1].value # result.r
  /\ Component(result.updated[1].value, <<2, 1, 1>>) = IntV(7)
  /\ result.read_back # <<>> /\ result.read_back[1].value = result.v
  /\ result.restored # <<>> /\ result.restored[1].value = result.r
---------------------------------------------------------------------------
(* Division and modulo on their own: the BinOp node of `(x + 4 * 5) / x` or *)
(* of `7 % P` is dispatched and its action fires on two operand values of   *)
(* one type.                                                                *)

DivModExprs == {22, 159}
IntOperands == {-7, 0, 2, 7}
DoubleOperands ==
  {Fin(FALSE, 0, 1), Fin(TRUE, 0, 1), Fin(FALSE, 3, 2), Fin(TRUE, 3, 1), Inf(FALSE), Inf(TRUE), NaN}
OperandPairs ==
  {<<IntV(a), IntV(b)>> : a \in IntOperands, b \in IntOperands}
  \cup {<<BigIntV(a), BigIntV(b)>> : a \in IntOperands, b \in IntOperands}
  \cup (DoubleOperands \X DoubleOperands)

InitBinOp ==
  \E e \in DivModExprs, pair \in OperandPairs :
    Detached("binop", [k |-> "BinOp", expr |-> e, lhs |-> pair[1], rhs |-> pair[2], out |-> <<>>])

(* cont_binop for the node, then Action::BinOp on the values of its operands. *)
ApplyBinOp ==
  /\ mode = "binop"
  /\ result.out = <<>>
  /\ LET S1 == cont_expr(Operands(<<>>), result.expr)
         S2 == [S1 EXCEPT !.cont_stack = <<>>, !.action_stack = <<>>,
                          !.vals = <<result.lhs, result.rhs>>]
         S3 == cont_action(S2, Top(S1.action_stack))
     IN result' = [result EXCEPT !.out = <<ValOutcome(S3)>>]
  /\ OnlyResult

NextBinOp == ApplyBinOp

SpecBinOp == InitBinOp /\ [][NextBinOp]_vars

BinOpApplied(op) ==
  mode = "binop" /\ result.out # <<>> /\ get_expr(0, result.expr).op = op
IsZero(val) == IF val.t = "Double" THEN val.v.c = "fin" /\ val.v.num = 0 ELSE val.v = 0

(* C15 (as amended): Int and BigInt division by zero raise DivZero, Double       *)
(* division raises no error, by 0.0 neither; the DivZero raised for a division   *)
(* carries the span of the division's right operand.                             *)
ThmC15 ==
  BinOpApplied("Div") =>
    LET res == result.out[1]
    IN /\ (result.lhs.t \in {"Int", "BigInt"} /\ IsZero(result.rhs)) =>
            /\ ~res.ok /\ res.kind = "DivZero"
            /\ res.span = get_expr(0, get_expr(0, result.expr).rhs).span
       /\ (result.lhs.t \in {"Int", "BigInt"} /\ ~IsZero(result.rhs)) =>
            (res.ok /\ res.value.t = result.lhs.t)
       /\ result.lhs.t = "Double" => (res.ok /\ res.value.t = "Double")

(* 7 / 0 on BigInt has raised DivZero at the divisor `x` of `(x + 4 * 5) / x`. *)
WitC15 ==
  /\ BinOpApplied("Div")
  /\ result.lhs = BigIntV(7) /\ result.rhs = BigIntV(0)
  /\ result.out[1].kind = "DivZero"
  /\ result.out[1].span = Sp(121, 122)
  /\ result.out[1].span # get_expr(0, result.expr).span

(* C15: Int and BigInt division by zero raise DivZero, Double division by 0.0   *)
(* raises no error; the DivZero raised for a division expression at span (L, H) *)
(* carries the span (L, H).                                                     *)
CexC15 ==
  BinOpApplied("Div") =>
    LET res == result.out[1]
    IN /\ (result.lhs.t \in {"Int", "BigInt"} /\ IsZero(result.rhs)) =>
            /\ ~res.ok /\ res.kind = "DivZero"
            /\ res.span = get_expr(0, result.expr).span
       /\ result.lhs.t = "Double" => res.ok

(* C16 (as amended): modulo by a zero divisor fails with DivZero for Int, for    *)
(* BigInt and for Double (0.0 and -0.0) alike; any other modulo succeeds, on     *)
(* Double with the IEEE remainder (NaN for an infinite dividend or a NaN).       *)
ThmC16 ==
  BinOpApplied("Mod") =>
    LET res == result.out[1]
    IN /\ IsZero(result.rhs) =>
            /\ ~res.ok /\ res.kind = "DivZero"
            /\ res.span = get_expr(0, get_expr(0, result.expr).rhs).span
       /\ ~IsZero(result.rhs) => (res.ok /\ res.value.t = result.lhs.t)
       /\ (result.lhs.t = "Double" /\ ~IsZero(result.rhs)
           /\ (result.lhs.v.c # "fin" \/ result.rhs.v.c = "nan")) => res.value = NaN

(* 1.5 % -0.0 has failed with DivZero. *)
WitC16 ==
  /\ BinOpApplied("Mod")
  /\ result.lhs = Fin(FALSE, 3, 2) /\ result.rhs = Fin(TRUE, 0, 1)
  /\ ~result.out[1].ok /\ result.out[1].kind = "DivZero"

(* C16: modulo follows the rule of division: Int and BigInt modulo by zero fail *)
(* with DivZero, Double modulo by zero follows IEEE and does not.               *)
CexC16 ==
  BinOpApplied("Mod") =>
    LET res == result.out[1]
    IN /\ (result.lhs.t \in {"Int", "BigInt"} /\ IsZero(result.rhs)) =>
            (~res.ok /\ res.kind = "DivZero")
       /\ (result.lhs.t = "Double" /\ IsZero(result.rhs)) =>
            (res.ok /\ res.value = NaN)
---------------------------------------------------------------------------
(* Indexing by a Range on its own: Action::Index fired on an array and a *)
(* Range value.                                                          *)

SlicePositions == {<<>>, <<-1>>, <<0>>, <<1>>, <<MaxLen>>, <<I64Max>>}
SliceSteps == {I64Min, -2, -1, 0, 1, 2, I64Max}

InitSlice ==
  \E arr \in UpdArrays, start \in SlicePositions, stp \in SliceSteps, end \in SlicePositions :
    Detached("slice", [k |-> "Slice", a |-> ArrV(1, arr), range |-> RangeV(start, stp, end),
                       out |-> <<>>])

(* eval_index on the array and the range.  A next() that adds with overflow panics *)
(* in a build with overflow checks and wraps in one without.                       *)
ApplySlice ==
  /\ mode = "slice"
  /\ result.out = <<>>
  /\ LET arr == result.a.v
         r == result.range.v
         S == eval_index(Operands(<<result.a, result.range>>), get_expr(0, UpdTarget.mid).span)
         overflows == r.step # 0 /\ RangeOverflows(range_start(arr, r.start, r.step), r.step,
                                                   range_end(arr, r.step, r.end), Len(arr))
     IN \E overflow_checks \in BOOLEAN :
          result' = [result EXCEPT !.out =
                       IF overflows /\ overflow_checks
                         THEN <<[ok |-> FALSE, value |-> UnitV, kind |-> "panic", span |-> SpanDefault]>>
                         ELSE <<ValOutcome(S)>>]
  /\ OnlyResult

NextSlice == ApplySlice

SpecSlice == InitSlice /\ [][NextSlice]_vars

(* C17: indexing an array by a Range with step 0 fails with RangeStepZero;       *)
(* otherwise the positions are start, start + step, ... up to and including end  *)
(* when reachable, a missing start being 0 for a positive step and len - 1 for a *)
(* negative one and a missing end len - 1 resp. 0; the result is the array of    *)
(* the elements at these positions, and the operation fails if one of them is    *)
(* outside [0, len).                                                             *)
RECURSIVE ExpectedSlice(_, _, _, _)
ExpectedSlice(arr, pos, stp, end) ==
  IF (stp > 0 /\ pos > end) \/ (stp < 0 /\ pos < end) THEN [ok |-> TRUE, items |-> <<>>]
  ELSE IF pos < 0 \/ pos >= Len(arr) THEN [ok |-> FALSE, items |-> <<>>]
  ELSE LET rest == ExpectedSlice(arr, pos + stp, stp, end)
       IN [ok |-> rest.ok, items |-> <<arr[pos + 1]>> \o rest.items]
CexC17 ==
  (mode = "slice" /\ result.out # <<>>) =>
    LET arr == result.a.v
        r == result.range.v
        res == result.out[1]
        start == IF r.start # <<>> THEN r.start[1] ELSE IF r.step > 0 THEN 0 ELSE Len(arr) - 1
        end == IF r.end # <<>> THEN r.end[1] ELSE IF r.step > 0 THEN Len(arr) - 1 ELSE 0
        expected == ExpectedSlice(arr, start, r.step, end)
    IN IF r.step = 0 THEN ~res.ok /\ res.kind = "RangeStepZero"
       ELSE IF expected.ok
         THEN res.ok /\ res.value.t = "Array" /\ res.value.v = expected.items
         ELSE ~res.ok /\ res.kind \in {"InvalidIndex", "IndexOutOfRange"}
---------------------------------------------------------------------------
(* C18: whenever the host holds the State, get_variables_in_frame(frame_id) is  *)
(* the bindings of the scopes whose frame_id is the argument, and of no other   *)
(* scope, those of the innermost scope first; get_variables_in_top_frame is     *)
(* that list for the frame of the innermost scope.                              *)
ScopesOfFrame(frame_id) == SelectSeq(env, LAMBDA scope : scope.frame_id = frame_id)
InnermostFirst(frame_id) ==
  LET scopes == Rev(ScopesOfFrame(frame_id))
  IN Flatten([i \in 1..Len(scopes) |->
                [j \in 1..Len(scopes[i].bindings) |-> VariableInfo(scopes[i].bindings[j])]])
CexC18 ==
  mode \in {"idle", "done"} =>
    /\ \A frame_id \in 0..(Len(call_stack) + 1) :
         get_variables_in_frame(env, frame_id) = InnermostFirst(frame_id)
    /\ get_variables_in_top_frame(env) = InnermostFirst(Top(env).frame_id)
---------------------------------------------------------------------------
(* C19: the first error ends eval at once, in the state the failing handler    *)
(* left, with nothing run after it; it is returned with one frame per active   *)
(* call, the innermost with the current span and each outer one with the span  *)
(* of the call site of the frame directly inside it, a span inside the call    *)
(* expression (from its callee to its arguments) that pushed that frame.       *)
FailedNow ==
  /\ last.k \in {"Action", "Expr"}
  /\ LET S == IF last.k = "Action" THEN cont_action(last.pre, last.act)
              ELSE cont_expr(last.pre, last.id)
     IN /\ S.err = <<result.err>>
        /\ St = [S EXCEPT !.err = <<>>]
InCallSite(span, call) ==
  call.callable_span.lo <= span.lo /\ span.hi <= call.args_span.hi
CexC19 ==
  (mode = "done" /\ result.k = "Err") =>
    /\ FailedNow
    /\ Len(result.frames) = Len(call_stack)
    /\ call_stack # <<>> => result.frames[Len(call_stack)].span = current_span
    /\ \A i \in 1..(Len(call_stack) - 1) :
         /\ result.frames[i].id = call_stack[i].id
         /\ InCallSite(result.frames[i].span, calls[i + 1].call)
---------------------------------------------------------------------------
(* The name resolver of the front end (qsc_frontend/src/resolve.rs).             *)

(* FxHashMap: a function on the set of its keys. *)
EmptyMap == [key \in {} |-> 0]
MapGet(map, key) == IF key \in DOMAIN map THEN <<map[key]>> ELSE <<>>
MapInsert(map, key, val) ==
  [k \in DOMAIN map \cup {key} |-> IF k = key THEN val ELSE map[k]]

(* The namespaces opened implicitly, in the order of the constant. *)
PRELUDE ==
  <<"Microsoft.Quantum.Canon", "Microsoft.Quantum.Core", "Microsoft.Quantum.Intrinsic">>

(* Res: what a name resolves to. *)
ResItem(item, status) == [k |-> "Item", id |-> item, status |-> status]
ResLocal(node) == [k |-> "Local", id |-> node, status |-> "Available"]
ResParam(param) == [k |-> "Param", id |-> param, status |-> "Available"]

(* Scope::new; the name of a ScopeKind::Namespace is kept beside the kind. *)
Scope_new(kind, namespace) ==
  [kind |-> kind, namespace |-> namespace, opens |-> EmptyMap,
   tys |-> EmptyMap, terms |-> EmptyMap, vars |-> EmptyMap, ty_vars |-> EmptyMap]

(* Scope::item *)
Scope_item(scope, kind, name) ==
  MapGet(IF kind = "Ty" THEN scope.tys ELSE scope.terms, name)

(* GlobalScope::get *)
GlobalScope_get(globals, kind, namespace, name) ==
  LET namespaces == IF kind = "Ty" THEN globals.tys ELSE globals.terms
  IN IF namespace \in DOMAIN namespaces THEN MapGet(namespaces[namespace], name) ELSE <<>>

(* Locals::get_scopes: the scopes of a chain, innermost first. *)
get_scopes(locals, scope_chain) ==
  [i \in 1..Len(scope_chain) |-> locals[scope_chain[Len(scope_chain) + 1 - i]]]

(* resolve_scope_locals, with the items looked up before the variables. *)
resolve_scope_locals_items_first(kind, globals, scope, with_vars, name) ==
  IF Scope_item(scope, kind, name) # <<>>
    THEN <<ResItem(Scope_item(scope, kind, name)[1], "Available")>>
  ELSE IF with_vars /\ kind = "Term" /\ name \in DOMAIN scope.vars
    THEN <<ResLocal(scope.vars[name].id)>>
  ELSE IF with_vars /\ kind = "Ty" /\ name \in DOMAIN scope.ty_vars
    THEN <<ResParam(scope.ty_vars[name])>>
  ELSE IF scope.kind = "Namespace"
    THEN GlobalScope_get(globals, kind, scope.namespace, name)
  ELSE <<>>

(* resolve_scope_locals: the shadowing rules within one scope; Option<Res>. *)
resolve_scope_locals(kind, globals, scope, with_vars, name) ==
  IF with_vars /\ kind = "Term" /\ name \in DOMAIN scope.vars
    THEN <<ResLocal(scope.vars[name].id)>>
  ELSE IF with_vars /\ kind = "Ty" /\ name \in DOMAIN scope.ty_vars
    THEN <<ResParam(scope.ty_vars[name])>>
  ELSE IF Scope_item(scope, kind, name) # <<>>
    THEN <<ResItem(Scope_item(scope, kind, name)[1], "Available")>>
  ELSE IF scope.kind = "Namespace"
    THEN GlobalScope_get(globals, kind, scope.namespace, name)
  ELSE <<>>

(* candidates.insert(res, open): one entry per Res, the last insertion stays. *)
CandidatesInsert(candidates, res, from) ==
  {c \in candidates : c.res # res} \cup {[res |-> res, from |-> from]}

(* resolve_explicit_opens: FxHashMap<Res, &Open> as a set of entries. *)
RECURSIVE resolve_explicit_opens(_, _, _, _)
resolve_explicit_opens(kind, globals, opens, name) ==
  IF opens = <<>> THEN {}
  ELSE LET open == opens[Len(opens)]
           before == resolve_explicit_opens(kind, globals, SubSeq(opens, 1, Len(opens) - 1), name)
           res == GlobalScope_get(globals, kind, open.namespace, name)
       IN IF res # <<>> THEN CandidatesInsert(before, res[1], open) ELSE before

(* The order of &str on the namespace names of the model. *)
NamespaceOrder ==
  <<"A", "Microsoft.Quantum.Canon", "Microsoft.Quantum.Core", "Microsoft.Quantum.Intrinsic",
    "N1", "N2", "N3">>
StrLeq(a, b) ==
  \E i, j \in 1..Len(NamespaceOrder) :
    NamespaceOrder[i] = a /\ NamespaceOrder[j] = b /\ i <= j

(* resolve_implicit_opens that stops at the first namespace providing the name. *)
RECURSIVE resolve_implicit_opens_first(_, _, _, _)
resolve_implicit_opens_first(kind, globals, namespaces, name) ==
  IF namespaces = <<>> THEN {}
  ELSE LET res == GlobalScope_get(globals, kind, Head(namespaces), name)
       IN IF res # <<>> THEN {[res |-> res[1], from |-> Head(namespaces)]}
          ELSE resolve_implicit_opens_first(kind, globals, Tail(namespaces), name)

(* resolve_implicit_opens: FxHashMap<Res, &str>, the namespace it comes from. *)
RECURSIVE resolve_implicit_opens(_, _, _, _)
resolve_implicit_opens(kind, globals, namespaces, name) ==
  IF namespaces = <<>> THEN {}
  ELSE LET n == Len(namespaces)
           before == resolve_implicit_opens(kind, globals, SubSeq(namespaces, 1, n - 1), name)
           res == GlobalScope_get(globals, kind, namespaces[n], name)
       IN IF res # <<>> THEN CandidatesInsert(before, res[1], namespaces[n]) ELSE before

(* single: the element of a collection of exactly one. *)
single(xs) == IF Cardinality(xs) = 1 THEN <<CHOOSE x \in xs : TRUE>> ELSE <<>>

(* The loop of resolve with local callables as closures: with_vars stays set. *)
RECURSIVE resolve_walk_closures(_, _, _, _, _, _, _)
resolve_walk_closures(kind, globals, scopes, i, with_vars, name, namespace) ==
  IF i > Len(scopes) THEN [k |-> "Candidates", candidates |-> {}]
  ELSE LET scope == scopes[i]
           hit == IF namespace = ""
                    THEN resolve_scope_locals(kind, globals, scope, with_vars, name) ELSE <<>>
           opened == IF namespace \in DOMAIN scope.opens
                       THEN resolve_explicit_opens(kind, globals, scope.opens[namespace], name)
                       ELSE {}
       IN IF hit # <<>> THEN [k |-> "Return", res |-> hit[1]]
          ELSE IF opened # {} THEN [k |-> "Candidates", candidates |-> opened]
          ELSE resolve_walk_closures(kind, globals, scopes, i + 1, with_vars, name, namespace)

(* The loop of resolve that goes on climbing when opens provide the name and     *)
(* gathers the candidates of every scope.                                        *)
RECURSIVE resolve_walk_outer_opens(_, _, _, _, _, _, _)
resolve_walk_outer_opens(kind, globals, scopes, i, with_vars, name, namespace) ==
  IF i > Len(scopes) THEN [k |-> "Candidates", candidates |-> {}]
  ELSE LET scope == scopes[i]
           hit == IF namespace = ""
                    THEN resolve_scope_locals(kind, globals, scope, with_vars, name) ELSE <<>>
           opened == IF namespace \in DOMAIN scope.opens
                       THEN resolve_explicit_opens(kind, globals, scope.opens[namespace], name)
                       ELSE {}
           outer == resolve_walk_outer_opens(kind, globals, scopes, i + 1,
                      with_vars /\ scope.kind # "Callable", name, namespace)
       IN IF hit # <<>> THEN [k |-> "Return", res |-> hit[1]]
          ELSE IF outer.k = "Return" THEN outer
          ELSE [k |-> "Candidates",
                candidates |-> opened \cup {c \in outer.candidates :
                                              \A d \in opened : d.res # c.res}]

(* The loop of resolve over the scopes from position i, innermost first:       *)
(* a local hit returns, opens that provide the name end the climb.             *)
RECURSIVE resolve_walk(_, _, _, _, _, _, _)
resolve_walk(kind, globals, scopes, i, with_vars, name, namespace) ==
  IF i > Len(scopes) THEN [k |-> "Candidates", candidates |-> {}]
  ELSE LET scope == scopes[i]
           hit == IF namespace = ""
                    THEN resolve_scope_locals(kind, globals, scope, with_vars, name) ELSE <<>>
           opened == IF namespace \in DOMAIN scope.opens
                       THEN resolve_explicit_opens(kind, globals, scope.opens[namespace], name)
                       ELSE {}
       IN IF hit # <<>> THEN [k |-> "Return", res |-> hit[1]]
          ELSE IF opened # {} THEN [k |-> "Candidates", candidates |-> opened]
          ELSE resolve_walk(kind, globals, scopes, i + 1,
                            with_vars /\ scope.kind # "Callable", name, namespace)

SpanLess(a, b) == a.lo < b.lo \/ (a.lo = b.lo /\ a.hi < b.hi)

(* resolve after the loop over the scopes: prelude are the candidates of the     *)
(* implicit opens, global the unopened global, implemented the explicit          *)
(* candidates that are left once the unimplemented ones have been removed.       *)
resolve_candidates(name, opened, prelude, global, implemented) ==
  IF Cardinality(prelude) > 1
    THEN LET a == CHOOSE c \in prelude : \A d \in prelude : StrLeq(c.from, d.from)
             b == CHOOSE c \in prelude \ {a} : \A d \in prelude \ {a} : StrLeq(c.from, d.from)
         IN [ok |-> FALSE,
             err |-> [kind |-> "AmbiguousPrelude", span |-> name.span, name |-> name.name,
                      candidate_a |-> a.from, candidate_b |-> b.from]]
  ELSE IF prelude # {} THEN [ok |-> TRUE, res |-> single(prelude)[1].res]
  ELSE IF opened = {} /\ global # <<>> THEN [ok |-> TRUE, res |-> global[1]]
  ELSE IF Cardinality(implemented) > 1
    THEN LET first == CHOOSE c \in implemented :
                        \A d \in implemented \ {c} : SpanLess(c.from.span, d.from.span)
             rest == implemented \ {first}
             second == CHOOSE c \in rest : \A d \in rest \ {c} : SpanLess(c.from.span, d.from.span)
         IN [ok |-> FALSE,
             err |-> [kind |-> "Ambiguous", name |-> name.name, name_span |-> name.span,
                      first_open |-> first.from.namespace,
                      second_open |-> second.from.namespace,
                      first_open_span |-> first.from.span,
                      second_open_span |-> second.from.span]]
  ELSE IF single(implemented) # <<>> THEN [ok |-> TRUE, res |-> single(implemented)[1].res]
  ELSE [ok |-> FALSE, err |-> [kind |-> "NotFound", name |-> name.name, span |-> name.span]]

(* resolve from the candidates of the loop, the unimplemented ones kept. *)
resolve_opened_all(kind, globals, name, namespace, opened) ==
  resolve_candidates(name, opened,
    IF opened = {} /\ namespace = ""
      THEN resolve_implicit_opens(kind, globals, PRELUDE, name.name) ELSE {},
    GlobalScope_get(globals, kind, namespace, name.name),
    opened)

(* resolve from the candidates the loop over the scopes ended with. *)
resolve_opened(kind, globals, name, namespace, opened) ==
  resolve_candidates(name, opened,
    IF opened = {} /\ namespace = ""
      THEN resolve_implicit_opens(kind, globals, PRELUDE, name.name) ELSE {},
    GlobalScope_get(globals, kind, namespace, name.name),
    IF Cardinality(opened) > 1
      THEN {c \in opened : c.res.status # "Unimplemented"} ELSE opened)

(* resolve from what the loop over the scopes met. *)
resolve_walked(kind, globals, name, namespace, walk) ==
  IF walk.k = "Return" THEN [ok |-> TRUE, res |-> walk.res]
  ELSE resolve_opened(kind, globals, name, namespace, walk.candidates)

(* resolve: Result<Res, Error>; name is the Ident, namespace "" for none. *)
resolve(kind, globals, scopes, name, namespace) ==
  resolve_walked(kind, globals, name, namespace,
                 resolve_walk(kind, globals, scopes, 1, TRUE, name.name, namespace))

(* GlobalScope after the global items have been bound: per namespace, whether it *)
(* declares the name "a" as a callable, as an unimplemented callable or as a     *)
(* newtype (bind_global_item: a callable is a term, a newtype a term and a type). *)
GlobalNamespaces == <<"A", "N1", "N2", "Microsoft.Quantum.Canon", "Microsoft.Quantum.Core">>
GlobalScopeFrom(namespaces, decls) ==
  LET N == 1..Len(namespaces)
      res(n) == ResItem(n, IF decls[n] = "Unimplemented" THEN "Unimplemented" ELSE "Available")
      table(kinds) == [ns \in {namespaces[n] : n \in N} |->
                        LET n == CHOOSE n \in N : namespaces[n] = ns
                        IN IF decls[n] \in kinds THEN MapInsert(EmptyMap, "a", res(n))
                           ELSE EmptyMap]
  IN [tys |-> table({"Ty"}), terms |-> table({"Callable", "Unimplemented", "Ty"}),
      namespaces |-> {namespaces[n] : n \in N}, intrinsics |-> {}]
GlobalScopeOf(decls) == GlobalScopeFrom(GlobalNamespaces, decls)
GlobalScopes ==
  {GlobalScopeOf(decls) : decls \in
     {<<"None", "None", "None", "None", "None">>,
      <<"Callable", "Ty", "Unimplemented", "None", "Callable">>,
      <<"Ty", "Callable", "Callable", "None", "None">>,
      <<"None", "None", "None", "Ty", "Ty">>,
      <<"None", "Ty", "None", "None", "Callable">>}}

MaxScopes == 3
MaxBinds == 3
MaxOcc == 1

(* Resolver::new and Resolver::with_persistent_local_scope.  next is the next    *)
(* NodeId, item id and source offset; occ remembers each resolved occurrence     *)
(* with the scopes it was resolved in, drained the errors drain_errors has       *)
(* handed out, pats each pattern that was bound, prev_params the parameter names *)
(* that visit_callable_decl puts back when it is done with a callable.            *)
Resolver_new(globals, persistent) ==
  [globals |-> globals,
   locals |-> IF persistent THEN <<Scope_new("Block", "")>> ELSE <<>>,
   curr_scope_chain |-> IF persistent THEN <<1>> ELSE <<>>,
   names |-> EmptyMap, dropped_names |-> <<>>, curr_params |-> <<>>,
   errors |-> <<>>, drained |-> <<>>, next |-> 1, binds |-> 0, occ |-> <<>>,
   updates |-> <<>>, pats |-> <<>>, prev_params |-> <<>>]

(* Resolver::drain_errors: the errors go to the caller and the list is empty. *)
drain_errors(r) == [r EXCEPT !.drained = r.drained \o r.errors, !.errors = <<>>]

(* Resolver::extend_dropped_names; a TrackedName is [name, namespace]. *)
extend_dropped_names(r, dropped_names) ==
  [r EXCEPT !.dropped_names = r.dropped_names \o dropped_names]

current_scope(r) == r.curr_scope_chain[Len(r.curr_scope_chain)]
Bound(r) == [r EXCEPT !.next = r.next + 1, !.binds = r.binds + 1]

(* Resolver::push_scope and pop_scope *)
Resolver_push_scope(r, kind, namespace) ==
  [r EXCEPT !.locals = Append(r.locals, Scope_new(kind, namespace)),
            !.curr_scope_chain = Append(r.curr_scope_chain, Len(r.locals) + 1)]
Resolver_pop_scope(r) ==
  [r EXCEPT !.curr_scope_chain = SubSeq(r.curr_scope_chain, 1, Len(r.curr_scope_chain) - 1)]

(* ast::Pat: Bind (a name), Discard, Paren and Tuple (pats). *)
PatBind(name) == [kind |-> "Bind", name |-> name, pats |-> <<>>]
PatDiscard == [kind |-> "Discard", name |-> "", pats |-> <<>>]
PatParen(pat) == [kind |-> "Paren", name |-> "", pats |-> <<pat>>]
PatTuple(pats) == [kind |-> "Tuple", name |-> "", pats |-> pats]

(* Resolver::bind_pat_recursive over st = [r, bindings]: the resolver and the    *)
(* names bound so far; bind_pats is the loop over the items of a tuple.          *)
RECURSIVE bind_pat_recursive(_, _)
RECURSIVE bind_pats(_, _)
bind_pat_recursive(st, pat) ==
  CASE pat.kind = "Bind" ->
         LET s == current_scope(st.r)
             name == [id |-> st.r.next, name |-> pat.name, span |-> Sp(st.r.next, st.r.next + 1)]
         IN [r |-> Bound([st.r EXCEPT
                      !.errors = IF pat.name \in st.bindings
                                   THEN Append(st.r.errors,
                                          [kind |-> "DuplicateBinding", name |-> name.name,
                                           span |-> name.span])
                                   ELSE st.r.errors,
                      !.names = MapInsert(st.r.names, name.id, ResLocal(name.id)),
                      !.locals[s].vars = MapInsert(st.r.locals[s].vars, name.name,
                                                   [valid_at |-> name.id, id |-> name.id])]),
             bindings |-> st.bindings \cup {pat.name}]
    [] pat.kind = "Discard" -> st
    [] pat.kind = "Paren" -> bind_pat_recursive(st, pat.pats[1])
    [] pat.kind = "Tuple" -> bind_pats(st, pat.pats)
bind_pats(st, pats) ==
  IF pats = <<>> THEN st
  ELSE bind_pats(bind_pat_recursive(st, Head(pats)), Tail(pats))

(* bind_pat with the names of the variables of the scope taken as bound already. *)
bind_pat_no_shadow(r, pat) ==
  bind_pat_recursive([r |-> r, bindings |-> DOMAIN r.locals[current_scope(r)].vars], pat).r

(* Resolver::bind_pat *)
bind_pat(r, pat) == bind_pat_recursive([r |-> r, bindings |-> {}], pat).r

(* Resolver::bind_type_parameters of a callable with one type parameter. *)
bind_type_parameters(r, name) ==
  LET s == current_scope(r)
  IN Bound([r EXCEPT !.names = MapInsert(r.names, r.next, ResParam(0)),
                     !.locals[s].ty_vars = MapInsert(r.locals[s].ty_vars, name, 0)])

(* Resolver::bind_open *)
bind_open(r, namespace, alias) ==
  LET s == current_scope(r)
      opens == r.locals[s].opens
      open == [namespace |-> namespace, span |-> Sp(r.next, r.next + 1)]
      before == IF alias \in DOMAIN opens THEN opens[alias] ELSE <<>>
  IN Bound(IF namespace \in r.globals.namespaces
             THEN [r EXCEPT !.locals[s].opens = MapInsert(opens, alias, Append(before, open))]
             ELSE [r EXCEPT !.errors = Append(r.errors,
                     [kind |-> "NotFound", name |-> namespace, span |-> open.span])])

(* Resolver::bind_local_item: item is [kind, name] and for an open [kind, name, alias]. *)
bind_local_item(r, item) ==
  LET s == current_scope(r)
      res == ResItem(r.next, "Available")
  IN CASE item.kind = "Open" -> bind_open(r, item.name, item.alias)
       [] item.kind = "Callable" ->
            Bound([r EXCEPT !.names = MapInsert(r.names, r.next, res),
                            !.locals[s].terms = MapInsert(r.locals[s].terms, item.name, r.next)])
       [] item.kind = "Ty" ->
            Bound([r EXCEPT !.names = MapInsert(r.names, r.next, res),
                            !.locals[s].tys = MapInsert(r.locals[s].tys, item.name, r.next),
                            !.locals[s].terms = MapInsert(r.locals[s].terms, item.name, r.next)])

(* Resolver::check_item_status *)
check_item_status(r, res, name, span) ==
  IF res.k = "Item" /\ res.status = "Unimplemented"
    THEN [r EXCEPT !.errors = Append(r.errors,
            [kind |-> "Unimplemented", name |-> name, span |-> span])]
    ELSE r

(* The resolver after an occurrence resolved to res, the entry in names left out. *)
names_skip(seen, id, name, span, res) == check_item_status(seen, res, name, span)

(* The resolver after an occurrence resolved to res: the status is checked and   *)
(* the node gets its entry in names.                                             *)
names_insert(seen, id, name, span, res) ==
  LET checked == check_item_status(seen, res, name, span)
  IN [checked EXCEPT !.names = MapInsert(checked.names, id, res)]

(* The occurrence as it is remembered in occ. *)
Occurrence(kind, via, id, name, span, namespace, scopes) ==
  [kind |-> kind, name |-> name, via |-> via, id |-> id, span |-> span,
   namespace |-> namespace, scopes |-> scopes]

(* Resolver::resolve_ident, the match on the result of resolve *)
resolve_ident_match(seen, name, got) ==
  IF got.ok THEN names_insert(seen, name.id, name.name, name.span, got.res)
  ELSE [seen EXCEPT !.errors = Append(seen.errors, got.err)]

(* Resolver::resolve_ident *)
resolve_ident(r, kind, name) ==
  LET scopes == get_scopes(r.locals, r.curr_scope_chain)
  IN resolve_ident_match(
       [r EXCEPT !.next = r.next + 1,
                 !.occ = Append(r.occ, Occurrence(kind, "ident", name.id, name, name.span, "", scopes))],
       name, resolve(kind, r.globals, scopes, name, ""))

(* The error of resolve reported as it is. *)
path_error_plain(dropped_names, err) == err

(* The error resolve_path reports for err: a name that was dropped is not        *)
(* available, the first dropped name of that name saying where it is.            *)
path_error(dropped_names, err) ==
  LET dropped == {d \in 1..Len(dropped_names) : dropped_names[d].name = err.name}
      dropped_name == dropped_names[CHOOSE d \in dropped : \A e \in dropped : d <= e]
  IN IF err.kind = "NotFound" /\ dropped # {}
       THEN [kind |-> "NotAvailable", name |-> err.name, span |-> err.span,
             item |-> <<dropped_name.namespace, ".", dropped_name.name>>]
       ELSE err

(* Resolver::resolve_path, the match on the result of resolve, with the errors   *)
(* forgotten but for the latest.                                                 *)
resolve_path_match_latest(seen, path, got) ==
  IF got.ok THEN names_insert(seen, path.id, path.name.name, path.span, got.res)
  ELSE [seen EXCEPT !.errors = <<path_error(seen.dropped_names, got.err)>>]

(* Resolver::resolve_path, the match on the result of resolve *)
resolve_path_match(seen, path, got) ==
  IF got.ok THEN names_insert(seen, path.id, path.name.name, path.span, got.res)
  ELSE [seen EXCEPT !.errors = Append(seen.errors, path_error(seen.dropped_names, got.err))]

(* Resolver::resolve_path: path is [id, span, name, namespace], name the Ident   *)
(* and namespace "" for none.                                                    *)
resolve_path(r, kind, path) ==
  LET scopes == get_scopes(r.locals, r.curr_scope_chain)
  IN resolve_path_match(
       [r EXCEPT !.next = r.next + 2,
                 !.occ = Append(r.occ, Occurrence(kind, "path", path.id, path.name, path.span,
                                                  path.namespace, scopes))],
       path, resolve(kind, r.globals, scopes, path.name, path.namespace))

(* ---- the resolver as a state machine: the visitor's calls in any order that   *)
(* the syntax allows                                                             *)
Names == {"a"}
OpenNames == {"N1", "N2"}
LocalItems ==
  {[kind |-> "Callable", name |-> n, alias |-> ""] : n \in Names}
  \cup {[kind |-> "Ty", name |-> n, alias |-> ""] : n \in Names}
  \cup {[kind |-> "Open", name |-> n, alias |-> ""] : n \in OpenNames}

InitResolve ==
  \E globals \in GlobalScopes, persistent \in BOOLEAN :
    Detached("resolve", Resolver_new(globals, persistent))

(* The pass is followed until MaxOcc occurrences have been resolved. *)
Resolving == mode = "resolve" /\ Len(result.occ) < MaxOcc

InScope(kinds) ==
  /\ Resolving
  /\ result.curr_scope_chain # <<>>
  /\ result.locals[current_scope(result)].kind \in kinds

(* visit_namespace, visit_callable_decl, visit_block *)
PushScope ==
  /\ Resolving
  /\ Len(result.locals) < MaxScopes
  /\ \/ /\ result.curr_scope_chain = <<>>
        /\ result' = Resolver_push_scope(result, "Namespace", "A")
     \/ /\ InScope({"Namespace", "Block"})
        /\ result' = Resolver_push_scope(result, "Callable", "")
     \/ /\ InScope({"Callable", "Block"})
        /\ result' = Resolver_push_scope(result, "Block", "")
  /\ OnlyResult

PopScope ==
  /\ Resolving
  /\ Len(result.curr_scope_chain) > 0
  /\ result' = Resolver_pop_scope(result)
  /\ OnlyResult

BindPat ==
  /\ InScope({"Callable", "Block"})
  /\ result.binds < MaxBinds
  /\ \E name \in Names : result' = bind_pat(result, PatBind(name))
  /\ OnlyResult

BindTypeParameters ==
  /\ InScope({"Callable"})
  /\ result.binds < MaxBinds
  /\ \E name \in Names : result' = bind_type_parameters(result, name)
  /\ OnlyResult

BindOpen ==
  /\ InScope({"Namespace"})
  /\ result.binds < MaxBinds
  /\ \E namespace \in OpenNames : result' = bind_open(result, namespace, "")
  /\ OnlyResult

BindLocalItem ==
  /\ InScope({"Block"})
  /\ result.binds < MaxBinds
  /\ \E item \in LocalItems : result' = bind_local_item(result, item)
  /\ OnlyResult

ResolveIdent ==
  /\ Resolving
  /\ result.curr_scope_chain # <<>>
  /\ \E kind \in {"Term", "Ty"}, name \in Names :
       result' = resolve_ident(result, kind,
                   [id |-> result.next, name |-> name, span |-> Sp(result.next, result.next + 1)])
  /\ OnlyResult

NextResolve ==
  \/ PushScope
  \/ PopScope
  \/ BindPat
  \/ BindTypeParameters
  \/ BindOpen
  \/ BindLocalItem
  \/ ResolveIdent

SpecResolve == InitResolve /\ [][NextResolve]_vars

(* C20: the walk over the scopes of an unqualified name, innermost first, ends   *)
(* at the first scope that has a local hit or whose opens provide the name; if   *)
(* that scope has a local hit, the name resolves to it: to the local variable    *)
(* (term) or type parameter (type) where those are visible, else to the local    *)
(* item, else for a namespace scope to the item of that namespace, whatever the  *)
(* opens of that scope, the outer scopes, the prelude and the other globals      *)
(* hold; a variable is preferred to an item of the same scope.                   *)
VarsVisible(scopes, i) == \A j \in 1..(i - 1) : scopes[j].kind # "Callable"
LocalHit(o, globals, i) ==
  LET scope == o.scopes[i]
      visible == VarsVisible(o.scopes, i)
      name == o.name.name
      items == IF o.kind = "Ty" THEN scope.tys ELSE scope.terms
      declared == IF o.kind = "Ty" THEN globals.tys ELSE globals.terms
  IN IF visible /\ o.kind = "Term" /\ name \in DOMAIN scope.vars
       THEN <<[k |-> "Local", id |-> scope.vars[name].id, status |-> "Available"]>>
     ELSE IF visible /\ o.kind = "Ty" /\ name \in DOMAIN scope.ty_vars
       THEN <<[k |-> "Param", id |-> scope.ty_vars[name], status |-> "Available"]>>
     ELSE IF name \in DOMAIN items
       THEN <<[k |-> "Item", id |-> items[name], status |-> "Available"]>>
     ELSE IF scope.kind = "Namespace" /\ name \in DOMAIN declared[scope.namespace]
       THEN <<declared[scope.namespace][name]>>
     ELSE <<>>
OpensProvide(o, globals, i) ==
  LET opens == o.scopes[i].opens
      declared == IF o.kind = "Ty" THEN globals.tys ELSE globals.terms
  IN /\ "" \in DOMAIN opens
     /\ \E n \in 1..Len(opens[""]) : o.name.name \in DOMAIN declared[opens[""][n].namespace]
WalkEnds(o, globals, i) ==
  /\ i \in 1..Len(o.scopes)
  /\ LocalHit(o, globals, i) # <<>> \/ OpensProvide(o, globals, i)
  /\ \A j \in 1..(i - 1) : LocalHit(o, globals, j) = <<>> /\ ~OpensProvide(o, globals, j)
ErrorSpan(e) == IF e.kind = "Ambiguous" THEN e.name_span ELSE e.span
ThmC20 ==
  mode = "resolve" =>
    \A n \in 1..Len(result.occ) :
      LET o == result.occ[n]
      IN \A i \in 1..Len(o.scopes) :
           (WalkEnds(o, result.globals, i) /\ LocalHit(o, result.globals, i) # <<>>) =>
             /\ o.name.id \in DOMAIN result.names
             /\ result.names[o.name.id] = LocalHit(o, result.globals, i)[1]
             /\ \A e \in 1..Len(result.errors) :
                  ErrorSpan(result.errors[e]) = o.name.span =>
                    result.errors[e].kind = "Unimplemented"
(* A term resolved to the variable of a block that also declares an item of the  *)
(* name and opens a namespace providing it, inside a namespace that declares it, *)
(* with the prelude providing it too.                                            *)
WitC20 ==
  /\ mode = "resolve" /\ result.occ # <<>>
  /\ LET o == result.occ[1]
         inner == o.scopes[1]
     IN /\ o.kind = "Term"
        /\ Len(o.scopes) = 3
        /\ "a" \in DOMAIN inner.vars /\ "a" \in DOMAIN inner.terms
        /\ OpensProvide(o, result.globals, 1)
        /\ o.scopes[3].kind = "Namespace"
        /\ LocalHit(o, result.globals, 3) # <<>>
        /\ GlobalScope_get(result.globals, "Term", "Microsoft.Quantum.Core", "a") # <<>>
        /\ result.names[o.name.id] = ResLocal(inner.vars["a"].id)
        /\ result.errors = <<>>
---------------------------------------------------------------------------
(* C21: once the walk has crossed a Callable scope, the variables and type      *)
(* parameters of the enclosing scopes are invisible: a name that no scope up to *)
(* and including the innermost Callable scope binds as a variable (type         *)
(* parameter) does not resolve to Res::Local (Res::Param); the parameters and   *)
(* type parameters of the callable itself, and the local items and opens of the *)
(* enclosing scopes, are still found.                                           *)
Resolved(o) == IF o.name.id \in DOMAIN result.names THEN <<result.names[o.name.id]>> ELSE <<>>
Crossed(o, i) == \E j \in 1..(i - 1) : o.scopes[j].kind = "Callable"
OpenedItems(o, globals, i) ==
  LET opens == o.scopes[i].opens
      declared == IF o.kind = "Ty" THEN globals.tys ELSE globals.terms
  IN IF "" \in DOMAIN opens
       THEN {declared[opens[""][n].namespace][o.name.name] :
               n \in {m \in 1..Len(opens[""]) :
                        o.name.name \in DOMAIN declared[opens[""][m].namespace]}}
       ELSE {}
ThmC21 ==
  mode = "resolve" =>
    \A n \in 1..Len(result.occ) :
      LET o == result.occ[n]
          name == o.name.name
          bound(i) == IF o.kind = "Term" THEN name \in DOMAIN o.scopes[i].vars
                      ELSE name \in DOMAIN o.scopes[i].ty_vars
          items(i) == IF o.kind = "Ty" THEN o.scopes[i].tys ELSE o.scopes[i].terms
      IN /\ (\A i \in 1..Len(o.scopes) : bound(i) => Crossed(o, i)) =>
              (Resolved(o) = <<>> \/ Resolved(o)[1].k \notin {"Local", "Param"})
         /\ \A i \in 1..Len(o.scopes) :
              WalkEnds(o, result.globals, i) =>
                /\ (o.scopes[i].kind = "Callable" /\ ~Crossed(o, i) /\ bound(i)) =>
                     Resolved(o) = <<IF o.kind = "Term" THEN ResLocal(o.scopes[i].vars[name].id)
                                     ELSE ResParam(o.scopes[i].ty_vars[name])>>
                /\ (Crossed(o, i) /\ name \in DOMAIN items(i)) =>
                     Resolved(o) = <<ResItem(items(i)[name], "Available")>>
                /\ (Crossed(o, i) /\ LocalHit(o, result.globals, i) = <<>>
                      /\ Cardinality(OpenedItems(o, result.globals, i)) = 1) =>
                     Resolved(o) = <<CHOOSE res \in OpenedItems(o, result.globals, i) : TRUE>>
(* A term named like a variable and an item of a block outside the callable it  *)
(* occurs in: it resolves to the item.                                          *)
WitC21 ==
  /\ mode = "resolve" /\ result.occ # <<>>
  /\ LET o == result.occ[1]
     IN /\ o.kind = "Term"
        /\ Len(o.scopes) = 3
        /\ o.scopes[2].kind = "Callable"
        /\ "a" \notin DOMAIN o.scopes[1].vars /\ "a" \notin DOMAIN o.scopes[2].vars
        /\ "a" \in DOMAIN o.scopes[3].vars /\ "a" \in DOMAIN o.scopes[3].terms
        /\ Resolved(o) = <<ResItem(o.scopes[3].terms["a"], "Available")>>
---------------------------------------------------------------------------
(* Paths and identifiers resolved inside the block of a callable of a namespace. *)

(* Expressions of the AST, as far as the resolver tells them apart: a literal,  *)
(* a path, and the update operator (TernOp::Update, AssignUpdate).  A node gets *)
(* its NodeId and span when the visitor reaches it.                             *)
ExprLit == [kind |-> "Lit", name |-> "", namespace |-> ""]
ExprPath(namespace, name) == [kind |-> "Path", name |-> name, namespace |-> namespace]
PathAt(r, e) ==
  [id |-> r.next, span |-> Sp(r.next, r.next + 2), namespace |-> e.namespace,
   name |-> [id |-> r.next + 1, name |-> e.name, span |-> Sp(r.next + 1, r.next + 2)]]

(* With::visit_expr for a literal and a path. *)
visit_expr(r, e) ==
  IF e.kind = "Path" THEN resolve_path(r, "Term", PathAt(r, e)) ELSE r

(* is_field_update that takes every unqualified path for a field. *)
is_field_update_syntactic(globals, scopes, index) ==
  index.kind = "Path" /\ index.namespace = ""

(* is_field_update *)
is_field_update(globals, scopes, index) ==
  IF index.kind = "Path" /\ index.namespace = ""
    THEN LET got == resolve("Term", globals, scopes, PathAt([next |-> 0], index).name, "")
         IN ~(got.ok /\ got.res.k = "Local")
    ELSE FALSE

(* extract_field_name: Option<name>; index is the node as visit_update met it. *)
extract_field_name(names, index) ==
  IF index.kind = "Path" /\ index.namespace = ""
       /\ ~(index.id \in DOMAIN names /\ names[index.id].k = "Local")
    THEN <<index.name>>
    ELSE <<>>

(* With::visit_expr for the update operator, after the three operands; updates  *)
(* remembers the index node and the scopes it was looked at in.                  *)
visit_update_done(r3, id, index, scopes) ==
  [r3 EXCEPT !.updates = Append(r3.updates,
     [id |-> id, kind |-> index.kind, name |-> index.name, namespace |-> index.namespace,
      span |-> Sp(id, id + 2), scopes |-> scopes])]

(* With::visit_expr for the update operator, from the index on: the index is     *)
(* visited unless it is a field name.                                            *)
visit_update_index(r1, index, replace) ==
  LET scopes == get_scopes(r1.locals, r1.curr_scope_chain)
  IN visit_update_done(
       visit_expr(IF is_field_update(r1.globals, scopes, index)
                    THEN [r1 EXCEPT !.next = r1.next + 2]
                    ELSE visit_expr(r1, index),
                  replace),
       r1.next, index, scopes)

(* With::visit_expr for the update operator (TernOp::Update, AssignUpdate) *)
visit_update(r, container, index, replace) ==
  visit_update_index(visit_expr(r, container), index, replace)

(* ---- the resolver states the occurrences are resolved in *)
MaxOpens == 3
Aliases == {"", "X"}
PathNamespaces ==
  <<"A", "N1", "N2", "N3",
    "Microsoft.Quantum.Canon", "Microsoft.Quantum.Core", "Microsoft.Quantum.Intrinsic">>
Opened == {"N1", "N2", "N3"}
OpenLists(alias) ==
  UNION {[1..n -> {[namespace |-> ns, alias |-> alias] : ns \in Opened}] : n \in 0..MaxOpens}

RECURSIVE BindOpens(_, _)
BindOpens(r, opens) ==
  IF opens = <<>> THEN r
  ELSE BindOpens(bind_open(r, Head(opens).namespace, Head(opens).alias), Tail(opens))

(* visit_namespace, visit_callable_decl and visit_block up to a statement of the *)
(* block: the opens of the namespace, the parameter of the callable, the items   *)
(* of the block and an earlier `let` have been bound.                            *)
Entered(globals, dropped_names, decl) ==
  LET r0 == extend_dropped_names(Resolver_new(globals, FALSE), dropped_names)
      r1 == BindOpens(Resolver_push_scope(r0, "Namespace", "A"), decl.opens)
      r2 == Resolver_push_scope(r1, "Callable", "")
      r3 == Resolver_push_scope(IF decl.param THEN bind_pat(r2, PatBind("a")) ELSE r2, "Block", "")
      r4 == BindOpens(r3, decl.local_opens)
      r5 == IF decl.item
              THEN bind_local_item(r4, [kind |-> "Callable", name |-> "a", alias |-> ""])
              ELSE r4
  IN IF decl.var THEN bind_pat(r5, PatBind("a")) ELSE r5

Prog(opens, param, local_opens, item, var) ==
  [opens |-> opens, param |-> param, local_opens |-> local_opens, item |-> item, var |-> var]

(* Opens of one scope against what the opened namespaces declare. *)
OpensPrograms ==
  {Prog(opens, FALSE, <<>>, FALSE, FALSE) : opens \in UNION {OpenLists(alias) : alias \in Aliases}}
OpensGlobals ==
  {GlobalScopeFrom(PathNamespaces, <<rest[1], n[1], n[2], n[3], "None", rest[2], "None">>) :
     n \in [1..3 -> {"None", "Callable", "Unimplemented"}],
     rest \in {<<"None", "None">>, <<"Callable", "Callable">>}}

(* Opens and locals of nested scopes. *)
NestedPrograms ==
  {Prog(opens, param, local_opens, item, var) :
     opens \in {<<>>} \cup {<<[namespace |-> "N1", alias |-> alias]>> : alias \in Aliases},
     param \in BOOLEAN,
     local_opens \in {<<>>}
       \cup {<<[namespace |-> "N2", alias |-> alias]>> : alias \in Aliases}
       \cup {<<[namespace |-> "N1", alias |-> alias], [namespace |-> "N2", alias |-> alias]>> :
               alias \in Aliases},
     item \in BOOLEAN, var \in BOOLEAN}
NestedGlobals ==
  {GlobalScopeFrom(PathNamespaces, decls) : decls \in
     {<<"None", "None", "None", "None", "None", "None", "None">>,
      <<"Callable", "Callable", "Callable", "None", "None", "Callable", "None">>,
      <<"None", "Callable", "Ty", "None", "None", "None", "None">>,
      <<"Ty", "None", "None", "None", "None", "Callable", "None">>}}

(* The prelude against the namespace of the occurrence. *)
PreludePrograms == {Prog(<<>>, FALSE, <<>>, FALSE, var) : var \in BOOLEAN}
PreludeGlobals ==
  {GlobalScopeFrom(PathNamespaces, <<a, "None", "None", "None", p[1], p[2], p[3]>>) :
     a \in {"None", "Callable"}, p \in [1..3 -> {"None", "Callable", "Ty"}]}

DroppedNames ==
  {<<>>,
   <<[name |-> "a", namespace |-> "D"]>>,
   <<[name |-> "b", namespace |-> "D"], [name |-> "a", namespace |-> "E"],
     [name |-> "a", namespace |-> "F"]>>}

InitPath ==
  \E dropped_names \in DroppedNames :
    \/ \E globals \in OpensGlobals, decl \in OpensPrograms :
         Detached("path", [Entered(globals, dropped_names, decl) EXCEPT !.binds = 0])
    \/ \E globals \in NestedGlobals, decl \in NestedPrograms :
         Detached("path", [Entered(globals, dropped_names, decl) EXCEPT !.binds = 0])
    \/ \E globals \in PreludeGlobals, decl \in PreludePrograms :
         Detached("path", [Entered(globals, dropped_names, decl) EXCEPT !.binds = 0])

PathOcc == 1
PassOcc == 2
Qualifiers == {"", "X", "N1"}

(* The block is followed until PathOcc paths, type parameters and updates have   *)
(* been met, in a pass of several statements until PassOcc have.                 *)
OccLimit == IF mode = "pass" THEN PassOcc ELSE PathOcc
Visiting ==
  /\ mode \in {"path", "pass"}
  /\ Len(result.occ) + Len(result.updates) < OccLimit

(* With::visit_expr (ExprKind::Path) and With::visit_ty (TyKind::Path) *)
ResolvePath ==
  /\ Visiting
  /\ \E kind \in {"Term", "Ty"}, namespace \in Qualifiers :
       result' = resolve_path(result, kind, PathAt(result, ExprPath(namespace, "a")))
  /\ OnlyResult

(* With::visit_ty (TyKind::Param) *)
ResolveParam ==
  /\ Visiting
  /\ result' = resolve_ident(result, "Ty",
                 [id |-> result.next, name |-> "a", span |-> Sp(result.next, result.next + 1)])
  /\ OnlyResult

(* With::visit_expr (TernOp::Update, AssignUpdate) *)
VisitUpdate ==
  /\ Visiting
  /\ \E index \in {ExprLit} \cup {ExprPath(namespace, "a") : namespace \in Qualifiers} :
       result' = visit_update(result, ExprLit, index, ExprLit)
  /\ OnlyResult

NextPath ==
  \/ ResolvePath
  \/ ResolveParam
  \/ VisitUpdate

SpecPath == InitPath /\ [][NextPath]_vars
---------------------------------------------------------------------------
(* What an occurrence of SpecPath was resolved to, and the errors reported at it. *)
ResolvedAt(o) == IF o.id \in DOMAIN result.names THEN <<result.names[o.id]>> ELSE <<>>
Reported == result.drained \o result.errors
ErrorsAt(o) ==
  {Reported[e] : e \in {x \in 1..Len(Reported) : ErrorSpan(Reported[x]) \in {o.span, o.name.span}}}
Declared(o) == IF o.kind = "Ty" THEN result.globals.tys ELSE result.globals.terms

(* The opens of scope i under the qualifier of the occurrence, and of them the   *)
(* ones whose namespace declares the name.                                       *)
MatchingOpens(o, i) ==
  IF o.namespace \in DOMAIN o.scopes[i].opens THEN o.scopes[i].opens[o.namespace] ELSE <<>>
ProvidingOpens(o, i) ==
  {n \in 1..Len(MatchingOpens(o, i)) :
     o.name.name \in DOMAIN Declared(o)[MatchingOpens(o, i)[n].namespace]}
OpenCandidates(o, i) ==
  {Declared(o)[MatchingOpens(o, i)[n].namespace][o.name.name] : n \in ProvidingOpens(o, i)}
QualifiedLocalHit(o, i) == IF o.namespace = "" THEN LocalHit(o, result.globals, i) ELSE <<>>

(* Scope i is the innermost scope whose matching opens provide the name, and no  *)
(* scope up to it binds the name.                                                *)
ClimbEndsAtOpens(o, i) ==
  /\ i \in 1..Len(o.scopes)
  /\ OpenCandidates(o, i) # {}
  /\ \A j \in 1..i : QualifiedLocalHit(o, j) = <<>>
  /\ \A j \in 1..(i - 1) : OpenCandidates(o, j) = {}

(* C22: if the opens of a scope of the chain that match the qualifier provide   *)
(* the name, and no scope up to it binds the name, the innermost such scope      *)
(* decides: the occurrence resolves to an item of that scope's matching opens or *)
(* fails with Ambiguous between two of them (NotFound or NotAvailable when they  *)
(* are several and all unimplemented); the prelude, the unopened globals and the locals and opens of *)
(* the outer scopes have no part in it.                                          *)
ThmC22 ==
  mode = "path" =>
    \A n \in 1..Len(result.occ) :
      LET o == result.occ[n]
      IN \A i \in 1..Len(o.scopes) :
           ClimbEndsAtOpens(o, i) =>
             LET candidates == OpenCandidates(o, i)
                 opens == {MatchingOpens(o, i)[m] : m \in ProvidingOpens(o, i)}
             IN /\ ResolvedAt(o) # <<>> => ResolvedAt(o)[1] \in candidates
                /\ Cardinality(candidates) = 1 => ResolvedAt(o) # <<>>
                /\ \A e \in ErrorsAt(o) :
                     \/ e.kind = "Unimplemented" /\ ResolvedAt(o) # <<>>
                     \/ /\ e.kind = "Ambiguous" /\ ResolvedAt(o) = <<>>
                        /\ \E a \in opens, b \in opens :
                             /\ a # b
                             /\ e.first_open = a.namespace /\ e.first_open_span = a.span
                             /\ e.second_open = b.namespace /\ e.second_open_span = b.span
                     \/ /\ e.kind \in {"NotFound", "NotAvailable"} /\ ResolvedAt(o) = <<>>
                        /\ Cardinality(candidates) > 1
                        /\ \A c \in candidates : c.status = "Unimplemented"
                /\ ResolvedAt(o) = <<>> => ErrorsAt(o) # {}
(* An unqualified term in a block that opens N2, inside a namespace that         *)
(* declares the name and opens N1, with N1, N2 and a prelude namespace declaring *)
(* it: it resolves to the item of N2.                                            *)
WitC22 ==
  /\ mode = "path" /\ result.occ # <<>>
  /\ LET o == result.occ[1]
     IN /\ o.kind = "Term" /\ o.namespace = ""
        /\ Len(o.scopes) = 3
        /\ ClimbEndsAtOpens(o, 1)
        /\ OpenCandidates(o, 3) # {} /\ OpenCandidates(o, 3) # OpenCandidates(o, 1)
        /\ LocalHit(o, result.globals, 3) # <<>>
        /\ GlobalScope_get(result.globals, "Term", "Microsoft.Quantum.Core", "a") # <<>>
        /\ ResolvedAt(o) = <<GlobalScope_get(result.globals, "Term", "N2", "a")[1]>>
        /\ result.errors = <<>>
---------------------------------------------------------------------------
(* The first open of scope i that provides the candidate res, and the opens that *)
(* are the first to provide some candidate.                                      *)
FirstOpenOf(o, i, res) ==
  MatchingOpens(o, i)[CHOOSE n \in ProvidingOpens(o, i) :
    /\ Declared(o)[MatchingOpens(o, i)[n].namespace][o.name.name] = res
    /\ \A m \in ProvidingOpens(o, i) :
         Declared(o)[MatchingOpens(o, i)[m].namespace][o.name.name] = res => n <= m]
FirstOpens(o, i) == {FirstOpenOf(o, i, res) : res \in OpenCandidates(o, i)}
Lowest(opens) == CHOOSE a \in opens : \A b \in opens \ {a} : SpanLess(a.span, b.span)

(* C23: when the opens of the scope that decides introduce the name as two or    *)
(* more different implemented items, the occurrence gets no entry in names and   *)
(* fails with Ambiguous carrying the two opens with the lowest spans, the lower  *)
(* one first.                                                                    *)
CexC23 ==
  mode = "path" =>
    \A n \in 1..Len(result.occ) :
      LET o == result.occ[n]
      IN \A i \in 1..Len(o.scopes) :
           (/\ ClimbEndsAtOpens(o, i)
            /\ Cardinality(OpenCandidates(o, i)) > 1
            /\ \A c \in OpenCandidates(o, i) : c.status = "Available") =>
             LET first == Lowest(FirstOpens(o, i))
                 second == Lowest(FirstOpens(o, i) \ {first})
             IN /\ ResolvedAt(o) = <<>>
                /\ ErrorsAt(o) =
                     {[kind |-> "Ambiguous", name |-> o.name.name, name_span |-> o.name.span,
                       first_open |-> first.namespace, second_open |-> second.namespace,
                       first_open_span |-> first.span, second_open_span |-> second.span]}
(* The part of C23 that holds: no entry in names, and one Ambiguous error whose  *)
(* two opens are opens of the deciding scope that provide different items, the   *)
(* one with the lower span first.                                                *)
AmbiguousOpens ==
  mode = "path" =>
    \A n \in 1..Len(result.occ) :
      LET o == result.occ[n]
      IN \A i \in 1..Len(o.scopes) :
           (/\ ClimbEndsAtOpens(o, i)
            /\ Cardinality(OpenCandidates(o, i)) > 1
            /\ \A c \in OpenCandidates(o, i) : c.status = "Available") =>
             /\ ResolvedAt(o) = <<>>
             /\ Cardinality(ErrorsAt(o)) = 1
             /\ \A e \in ErrorsAt(o) :
                  /\ e.kind = "Ambiguous"
                  /\ SpanLess(e.first_open_span, e.second_open_span)
                  /\ \E a, b \in ProvidingOpens(o, i) :
                       /\ MatchingOpens(o, i)[a] = [namespace |-> e.first_open, span |-> e.first_open_span]
                       /\ MatchingOpens(o, i)[b] = [namespace |-> e.second_open, span |-> e.second_open_span]
                       /\ e.first_open # e.second_open
                  /\ \A m \in ProvidingOpens(o, i) :
                       MatchingOpens(o, i)[m].namespace \notin {e.first_open, e.second_open} =>
                         SpanLess(e.second_open_span, MatchingOpens(o, i)[m].span)
---------------------------------------------------------------------------
(* C24: when the opens of the deciding scope provide more than one candidate,   *)
(* the unimplemented ones are removed before the candidates are counted: one    *)
(* candidate left is the result, without an error; more than one left is        *)
(* Ambiguous; none left is NotFound from resolve (which resolve_path reports as *)
(* NotFound or, for a dropped name, NotAvailable).                              *)
ThmC24 ==
  mode = "path" =>
    \A n \in 1..Len(result.occ) :
      LET o == result.occ[n]
      IN \A i \in 1..Len(o.scopes) :
           (ClimbEndsAtOpens(o, i) /\ Cardinality(OpenCandidates(o, i)) > 1) =>
             LET remaining == {c \in OpenCandidates(o, i) : c.status # "Unimplemented"}
                 got == resolve(o.kind, result.globals, o.scopes, o.name, o.namespace)
             IN /\ Cardinality(remaining) = 1 =>
                     /\ ResolvedAt(o) = <<CHOOSE c \in remaining : TRUE>>
                     /\ ErrorsAt(o) = {}
                /\ Cardinality(remaining) > 1 =>
                     /\ ResolvedAt(o) = <<>>
                     /\ Cardinality(ErrorsAt(o)) = 1
                     /\ \A e \in ErrorsAt(o) : e.kind = "Ambiguous"
                /\ Cardinality(remaining) = 0 =>
                     /\ ResolvedAt(o) = <<>>
                     /\ got = [ok |-> FALSE,
                               err |-> [kind |-> "NotFound", name |-> o.name.name,
                                        span |-> o.name.span]]
                     /\ Cardinality(ErrorsAt(o)) = 1
                     /\ \A e \in ErrorsAt(o) : e.kind \in {"NotFound", "NotAvailable"}
(* A term that two namespaces opened by the enclosing namespace provide, N1 as   *)
(* an unimplemented item and N2 as an implemented one: the item of N2 is the     *)
(* result and nothing is reported.                                               *)
WitC24 ==
  /\ mode = "path" /\ result.occ # <<>>
  /\ LET o == result.occ[1]
     IN /\ o.kind = "Term"
        /\ ClimbEndsAtOpens(o, 3)
        /\ Cardinality(OpenCandidates(o, 3)) = 2
        /\ GlobalScope_get(result.globals, "Term", "N1", "a") # <<>>
        /\ GlobalScope_get(result.globals, "Term", "N1", "a")[1].status = "Unimplemented"
        /\ GlobalScope_get(result.globals, "Term", "N1", "a")[1] \in OpenCandidates(o, 3)
        /\ ResolvedAt(o) = GlobalScope_get(result.globals, "Term", "N2", "a")
        /\ ResolvedAt(o)[1].status = "Available"
        /\ result.errors = <<>>
---------------------------------------------------------------------------
(* The occurrence is unqualified and no scope of its chain binds the name or    *)
(* opens a namespace that provides it.                                          *)
NoLocalNoOpen(o) ==
  /\ o.namespace = ""
  /\ \A i \in 1..Len(o.scopes) :
       LocalHit(o, result.globals, i) = <<>> /\ OpenCandidates(o, i) = {}
PreludeHits(o) ==
  {PRELUDE[p] : p \in {q \in 1..Len(PRELUDE) : o.name.name \in DOMAIN Declared(o)[PRELUDE[q]]}}
FirstByName(namespaces) == CHOOSE a \in namespaces : \A b \in namespaces : StrLeq(a, b)

(* C25: an unqualified name that no scope binds and no open provides is looked  *)
(* up in the prelude namespaces: a single hit is the result; hits in several    *)
(* prelude namespaces give no result and one AmbiguousPrelude error naming the  *)
(* two namespaces that come first in the order of their names; no hit is        *)
(* NotFound (NotAvailable for a dropped name).                                  *)
ThmC25 ==
  mode = "path" =>
    \A n \in 1..Len(result.occ) :
      LET o == result.occ[n]
          hits == PreludeHits(o)
      IN NoLocalNoOpen(o) =>
           /\ Cardinality(hits) = 1 =>
                /\ ResolvedAt(o) = <<Declared(o)[FirstByName(hits)][o.name.name]>>
                /\ ErrorsAt(o) = {}
           /\ Cardinality(hits) > 1 =>
                /\ ResolvedAt(o) = <<>>
                /\ ErrorsAt(o) =
                     {[kind |-> "AmbiguousPrelude", span |-> o.name.span, name |-> o.name.name,
                       candidate_a |-> FirstByName(hits),
                       candidate_b |-> FirstByName(hits \ {FirstByName(hits)})]}
           /\ hits = {} =>
                /\ ResolvedAt(o) = <<>>
                /\ Cardinality(ErrorsAt(o)) = 1
                /\ \A e \in ErrorsAt(o) : e.kind \in {"NotFound", "NotAvailable"}
(* A term that the three prelude namespaces declare and nothing else provides:  *)
(* AmbiguousPrelude between Microsoft.Quantum.Canon and Microsoft.Quantum.Core. *)
WitC25 ==
  /\ mode = "path" /\ result.occ # <<>>
  /\ LET o == result.occ[1]
     IN /\ o.kind = "Term"
        /\ NoLocalNoOpen(o)
        /\ Cardinality(PreludeHits(o)) = 3
        /\ ResolvedAt(o) = <<>>
        /\ \E e \in ErrorsAt(o) :
             /\ e.kind = "AmbiguousPrelude"
             /\ e.candidate_a = "Microsoft.Quantum.Canon"
             /\ e.candidate_b = "Microsoft.Quantum.Core"
(* A type that one prelude namespace declares: it is the result. *)
PreludeSingleHit ==
  /\ mode = "path" /\ result.occ # <<>>
  /\ LET o == result.occ[1]
     IN /\ o.kind = "Ty" /\ NoLocalNoOpen(o)
        /\ PreludeHits(o) = {"Microsoft.Quantum.Intrinsic"}
        /\ ResolvedAt(o) = GlobalScope_get(result.globals, "Ty", "Microsoft.Quantum.Intrinsic", "a")
---------------------------------------------------------------------------
(* resolve found nothing for the occurrence. *)
ZeroCandidates(o) ==
  resolve(o.kind, result.globals, o.scopes, o.name, o.namespace) =
    [ok |-> FALSE, err |-> [kind |-> "NotFound", name |-> o.name.name, span |-> o.name.span]]
DroppedMatches(o) ==
  {d \in 1..Len(result.dropped_names) : result.dropped_names[d].name = o.name.name}
NotFoundAt(o) == [kind |-> "NotFound", name |-> o.name.name, span |-> o.name.span]
NotAvailableAt(o, dropped_name) ==
  [kind |-> "NotAvailable", name |-> o.name.name, span |-> o.name.span,
   item |-> <<dropped_name.namespace, ".", dropped_name.name>>]

---------------------------------------------------------------------------
(* The index operand of an update as an occurrence of a term. *)
IndexNode(u) ==
  [kind |-> "Term", via |-> "path", id |-> u.id, span |-> u.span, namespace |-> u.namespace,
   name |-> [id |-> u.id + 1, name |-> u.name, span |-> Sp(u.id + 1, u.id + 2)],
   scopes |-> u.scopes]
(* The unqualified term resolves to a variable: the innermost scope that binds  *)
(* the name or whose opens provide it binds it as a visible variable.           *)
ToLocal(o) ==
  \E i \in 1..Len(o.scopes) :
    /\ VarsVisible(o.scopes, i)
    /\ o.name.name \in DOMAIN o.scopes[i].vars
    /\ \A j \in 1..(i - 1) : LocalHit(o, result.globals, j) = <<>> /\ OpenCandidates(o, j) = {}
FieldOperand(u) ==
  u.kind = "Path" /\ u.namespace = "" /\ ~ToLocal(IndexNode(u))
Visited(u) == \E n \in 1..Len(result.occ) : result.occ[n] = IndexNode(u)

(* C27: the index operand of an update is a field name, and is not visited (no  *)
(* entry in names, no error, no resolution), iff it is an unqualified path that *)
(* does not resolve to a variable where it stands; any other path is resolved   *)
(* as a term, with an entry in names or an error; extract_field_name on the     *)
(* names of the pass gives the name for exactly the field operands.             *)
ThmC27 ==
  mode = "path" =>
    \A n \in 1..Len(result.updates) :
      LET u == result.updates[n]
          o == IndexNode(u)
      IN /\ FieldOperand(u) =>
              /\ ~Visited(u)
              /\ ResolvedAt(o) = <<>>
              /\ ErrorsAt(o) = {}
              /\ extract_field_name(result.names, u) = <<u.name>>
         /\ (u.kind = "Path" /\ ~FieldOperand(u)) =>
              /\ Visited(u)
              /\ ResolvedAt(o) # <<>> \/ ErrorsAt(o) # {}
              /\ (u.namespace = "" => ResolvedAt(o) = <<ResLocal(ResolvedAt(o)[1].id)>>)
              /\ extract_field_name(result.names, u) = <<>>
         /\ u.kind # "Path" => extract_field_name(result.names, u) = <<>>
(* `w/ a <- ..` where the block declares an item a and the callable has a        *)
(* parameter a: the operand is the parameter, it is visited and is no field.     *)
WitC27 ==
  /\ mode = "path" /\ result.updates # <<>>
  /\ LET u == result.updates[1]
     IN /\ u.kind = "Path" /\ u.namespace = ""
        /\ "a" \in DOMAIN u.scopes[2].vars /\ "a" \notin DOMAIN u.scopes[1].vars
        /\ Visited(u)
        /\ ResolvedAt(IndexNode(u)) = <<ResLocal(u.scopes[2].vars["a"].id)>>
        /\ extract_field_name(result.names, u) = <<>>
(* `w/ a <- ..` where a is an item of the block but no variable: a field name. *)
FieldNamedLikeItem ==
  /\ mode = "path" /\ result.updates # <<>>
  /\ LET u == result.updates[1]
     IN /\ FieldOperand(u)
        /\ "a" \in DOMAIN u.scopes[1].terms
        /\ result.occ = <<>> /\ result.errors = <<>>
        /\ extract_field_name(result.names, u) = <<"a">>
---------------------------------------------------------------------------
(* A pass over a block of several statements: expressions and types with paths,  *)
(* updates, and `let` statements that bind the name.                             *)
PassBinds == 1
PassPrograms ==
  {Prog(opens, param, local_opens, FALSE, FALSE) :
     opens \in {<<>>, <<[namespace |-> "N1", alias |-> ""]>>, <<[namespace |-> "N1", alias |-> "X"]>>},
     param \in BOOLEAN,
     local_opens \in {<<>>, <<[namespace |-> "N2", alias |-> ""]>>}}
InitPass ==
  \E globals \in NestedGlobals, decl \in PassPrograms,
     dropped_names \in {<<>>, <<[name |-> "a", namespace |-> "D"]>>} :
    Detached("pass", [Entered(globals, dropped_names, decl) EXCEPT !.binds = 0])

(* With::visit_stmt (StmtKind::Local): the pattern is bound after its expression. *)
VisitLocal ==
  /\ Visiting
  /\ mode = "pass"
  /\ result.binds < PassBinds
  /\ result' = bind_pat(result, PatBind("a"))
  /\ OnlyResult

(* Resolver::drain_errors, called by the compiler between two fragments. *)
DrainErrors ==
  /\ mode = "pass"
  /\ result.errors # <<>>
  /\ result' = drain_errors(result)
  /\ OnlyResult

NextPass ==
  \/ ResolvePath
  \/ ResolveParam
  \/ VisitUpdate
  \/ VisitLocal
  \/ DrainErrors

SpecPass == InitPass /\ [][NextPass]_vars

(* What resolve gives for the occurrence in the scopes it stands in. *)
Got(o) == resolve(o.kind, result.globals, o.scopes, o.name, o.namespace)

Recorded ==
  /\ \A n \in 1..Len(result.occ) :
       LET o == result.occ[n]
           got == Got(o)
       IN IF got.ok THEN ResolvedAt(o) = <<got.res>>
          ELSE ResolvedAt(o) = <<>> /\ ErrorsAt(o) # {}
  /\ \A n \in 1..Len(result.updates) :
       FieldOperand(result.updates[n]) => result.updates[n].id \notin DOMAIN result.names
---------------------------------------------------------------------------
(* The occurrences of the pass so far for which resolve fails. *)
Failing == {n \in 1..Len(result.occ) : ~Got(result.occ[n]).ok}
(* The step resolves an occurrence, and resolve fails for it. *)
FailedStep ==
  /\ Len(result'.occ) = Len(result.occ) + 1
  /\ ~resolve(result'.occ[Len(result'.occ)].kind, result.globals,
              get_scopes(result.locals, result.curr_scope_chain),
              result'.occ[Len(result'.occ)].name, result'.occ[Len(result'.occ)].namespace).ok
(* Every occurrence has the outcome resolve gives in the scopes that the         *)
(* bindings before it have built.                                                *)
ResolvedAsAlone ==
  \A n \in 1..Len(result.occ) :
    LET o == result.occ[n]
        got == Got(o)
    IN IF got.ok THEN ResolvedAt(o) = <<got.res>>
       ELSE /\ ResolvedAt(o) = <<>>
            /\ ErrorsAt(o) = {path_error(IF o.via = "path" THEN result.dropped_names ELSE <<>>,
                                         got.err)}

(* C29: a resolution that fails appends one error to the list and leaves the     *)
(* scopes, the scope chain and the entries of names as they are; the pass goes   *)
(* on, each occurrence is resolved in the scopes it stands in with the outcome   *)
(* resolve has for it there, whatever failed before, and the errors handed out   *)
(* and still listed are at least as many as the occurrences that failed.         *)
ThmC29 ==
  [][mode = "pass" =>
       /\ FailedStep =>
            /\ \E e \in {result'.errors[Len(result'.errors)]} :
                 result'.errors = Append(result.errors, e)
            /\ result'.curr_scope_chain = result.curr_scope_chain
            /\ result'.locals = result.locals
            /\ result'.names = result.names
            /\ result'.drained = result.drained
       /\ Len(result'.occ) = Len(result.occ) + 1 =>
            result'.occ[Len(result'.occ)].scopes =
              get_scopes(result.locals, result.curr_scope_chain)
       /\ ResolvedAsAlone'
       /\ Cardinality(Failing') <= Len(Reported')]_vars
(* A pass in which a path failed, the name was bound by a `let`, and the same    *)
(* path then resolved to the variable.                                           *)
WitC29 ==
  /\ mode = "pass" /\ Len(result.occ) = 2
  /\ ~Got(result.occ[1]).ok
  /\ result.occ[1].kind = "Term" /\ result.occ[2].kind = "Term"
  /\ result.occ[1].namespace = "" /\ result.occ[2].namespace = ""
  /\ ResolvedAt(result.occ[2]) # <<>> /\ ResolvedAt(result.occ[2])[1].k = "Local"
  /\ Len(Reported) = 1
(* A pass with two failing occurrences and two errors. *)
TwoFailures ==
  /\ mode = "pass" /\ Cardinality(Failing) = 2 /\ Len(result.errors) = 2
---------------------------------------------------------------------------
(* Patterns bound by callables, specializations and `let` statements. *)

(* collect_param_names of With::visit_callable_decl *)
RECURSIVE collect_param_names(_)
collect_param_names(pat) ==
  CASE pat.kind = "Bind" -> {pat.name}
    [] pat.kind = "Discard" -> {}
    [] pat.kind \in {"Paren", "Tuple"} ->
         UNION {collect_param_names(pat.pats[i]) : i \in 1..Len(pat.pats)}

(* With::visit_callable_decl up to the body of a callable without type           *)
(* parameters: curr_params is replaced, the scope pushed and the input bound.    *)
visit_callable_decl(r, input) ==
  bind_pat(Resolver_push_scope(
             [r EXCEPT !.curr_params = <<collect_param_names(input)>>,
                       !.prev_params = Append(r.prev_params, r.curr_params)],
             "Callable", ""),
           input)

(* With::with_spec_pat that starts from no names. *)
with_spec_pat_fresh(r, pat) == bind_pat(Resolver_push_scope(r, "Block", ""), pat)

(* With::with_spec_pat up to the call of f: the names of curr_params count as    *)
(* bound already.                                                                *)
with_spec_pat(r, pat) ==
  bind_pat_recursive(
    [r |-> Resolver_push_scope(r, "Block", ""),
     bindings |-> IF r.curr_params = <<>> THEN {} ELSE r.curr_params[1]],
    pat).r

(* With::with_scope after f, and the end of visit_callable_decl for the scope of *)
(* a callable: the scope is popped and curr_params put back.                     *)
leave_scope(r) ==
  IF r.locals[current_scope(r)].kind = "Callable"
    THEN [Resolver_pop_scope(r) EXCEPT
            !.curr_params = r.prev_params[Len(r.prev_params)],
            !.prev_params = SubSeq(r.prev_params, 1, Len(r.prev_params) - 1)]
    ELSE Resolver_pop_scope(r)

PatScopes == 5
MaxPats == 4
Patterns ==
  {PatBind("a"), PatDiscard, PatParen(PatBind("b")),
   PatTuple(<<PatBind("a"), PatBind("b")>>), PatTuple(<<PatBind("a"), PatBind("a")>>),
   PatTuple(<<PatBind("b"), PatTuple(<<PatDiscard, PatBind("b"), PatBind("a")>>)>>)}

(* The resolver r1 after the pattern was bound in r0, the binding remembered. *)
Logged(r0, via, pat, r1) ==
  [r1 EXCEPT !.pats = Append(r1.pats,
     [via |-> via, pat |-> pat, first_id |-> r0.next, chain |-> r1.curr_scope_chain,
      err_from |-> Len(r0.errors), err_to |-> Len(r1.errors),
      in_scope |-> DOMAIN r0.locals[current_scope(r1)].vars])]

InitPat ==
  \E globals \in GlobalScopes :
    Detached("pat", Resolver_push_scope(Resolver_new(globals, FALSE), "Namespace", "A"))

BindingPats == mode = "pat" /\ Len(result.pats) < MaxPats
Within(kinds) == result.locals[current_scope(result)].kind \in kinds

(* With::visit_callable_decl *)
VisitCallableDecl ==
  /\ BindingPats
  /\ Within({"Namespace", "Block"})
  /\ Len(result.locals) < PatScopes
  /\ \E input \in Patterns :
       result' = Logged(Resolver_push_scope(result, "Callable", ""), "callable", input,
                        visit_callable_decl(result, input))
  /\ OnlyResult

(* With::visit_spec_decl (SpecBody::Impl) *)
VisitSpecDecl ==
  /\ BindingPats
  /\ Within({"Callable"})
  /\ Len(result.locals) < PatScopes
  /\ \E input \in Patterns :
       result' = Logged(Resolver_push_scope(result, "Block", ""), "spec", input,
                        with_spec_pat(result, input))
  /\ OnlyResult

(* With::visit_stmt (StmtKind::Local) *)
VisitStmtLocal ==
  /\ BindingPats
  /\ Within({"Block"})
  /\ \E pat \in Patterns : result' = Logged(result, "local", pat, bind_pat(result, pat))
  /\ OnlyResult

(* With::with_scope: the end of a block or of a callable *)
LeaveScope ==
  /\ mode = "pat"
  /\ Within({"Callable", "Block"})
  /\ result' = leave_scope(result)
  /\ OnlyResult

NextPat ==
  \/ VisitCallableDecl
  \/ VisitSpecDecl
  \/ VisitStmtLocal
  \/ LeaveScope

SpecPat == InitPat /\ [][NextPat]_vars

(* The names of a pattern in the order they are written. *)
RECURSIVE PatNames(_)
RECURSIVE PatsNames(_)
PatNames(pat) ==
  CASE pat.kind = "Bind" -> <<pat.name>>
    [] pat.kind = "Discard" -> <<>>
    [] pat.kind \in {"Paren", "Tuple"} -> PatsNames(pat.pats)
PatsNames(pats) == IF pats = <<>> THEN <<>> ELSE PatNames(Head(pats)) \o PatsNames(Tail(pats))
(* The names that count as written before the pattern p: for the pattern of a    *)
(* specialization, the names of the input of the callable it belongs to.         *)
Enclosing(p) ==
  CHOOSE q \in {result.pats[n] : n \in 1..Len(result.pats)} :
    q.via = "callable" /\ q.chain = SubSeq(p.chain, 1, Len(p.chain) - 1)
WrittenBefore(p) ==
  IF p.via = "spec"
    THEN {PatNames(Enclosing(p).pat)[k] : k \in 1..Len(PatNames(Enclosing(p).pat))}
    ELSE {}
Repeats(p) ==
  {k \in 1..Len(PatNames(p.pat)) :
     \/ PatNames(p.pat)[k] \in WrittenBefore(p)
     \/ \E j \in 1..(k - 1) : PatNames(p.pat)[j] = PatNames(p.pat)[k]}
ErrorsOf(p) == SubSeq(result.errors, p.err_from + 1, p.err_to)

(* C30: binding a pattern reports one DuplicateBinding, at its span, for each   *)
(* name of the pattern that is written earlier in the pattern or, for the        *)
(* pattern of a specialization, is a parameter name of its callable, and nothing *)
(* else: nothing for a pattern of distinct names, whatever the scope binds       *)
(* already.                                                                      *)
ThmC30 ==
  mode = "pat" =>
    \A n \in 1..Len(result.pats) :
      LET p == result.pats[n]
      IN /\ Len(ErrorsOf(p)) = Cardinality(Repeats(p))
         /\ {ErrorsOf(p)[e] : e \in 1..Len(ErrorsOf(p))} =
              {[kind |-> "DuplicateBinding", name |-> PatNames(p.pat)[k],
                span |-> Sp(p.first_id + k - 1, p.first_id + k)] : k \in Repeats(p)}
(* `body (a, b)` of a callable with the input `a`, then `let (a, b)` in the body: *)
(* one DuplicateBinding, for the a of the specialization.                        *)
WitC30 ==
  /\ mode = "pat" /\ Len(result.pats) = 3
  /\ result.pats[1].via = "callable"
  /\ result.pats[1].pat = PatBind("a")
  /\ result.pats[2].via = "spec"
  /\ result.pats[2].pat = PatTuple(<<PatBind("a"), PatBind("b")>>)
  /\ result.pats[3].via = "local"
  /\ result.pats[3].pat = PatTuple(<<PatBind("a"), PatBind("b")>>)
  /\ result.pats[3].chain = result.pats[2].chain
  /\ result.pats[3].in_scope = {"a", "b"}
  /\ Len(result.errors) = 1
  /\ result.errors[1].kind = "DuplicateBinding" /\ result.errors[1].name = "a"
(* The second specialization of a callable, after a callable with other          *)
(* parameters inside the first: the parameters of its own callable count.        *)
SecondSpecialization ==
  /\ mode = "pat" /\ Len(result.pats) = 4
  /\ result.pats[1].via = "callable" /\ result.pats[1].pat = PatBind("a")
  /\ result.pats[2].via = "spec" /\ result.pats[2].pat = PatDiscard
  /\ result.pats[3].via = "callable" /\ result.pats[3].pat = PatParen(PatBind("b"))
  /\ Len(result.pats[3].chain) = 4
  /\ result.pats[4].via = "spec" /\ result.pats[4].pat = PatTuple(<<PatBind("a"), PatBind("b")>>)
  /\ Len(result.pats[4].chain) = 3
  /\ Len(result.errors) = 1 /\ result.errors[1].name = "a"
---------------------------------------------------------------------------
(* The table of global names (GlobalTable): the built-in types, then the items   *)
(* of external packages and the declarations of local packages.                  *)

(* ItemId: package is None (<<>>) for an item of the package being compiled. *)
ItemId(pkg, item) == [package |-> pkg, item |-> item]
intrapackage(item) == ItemId(<<>>, item)
Builtins ==
  <<"BigInt", "Bool", "Double", "Int", "Pauli", "Qubit", "Range", "Result", "String", "Unit">>
ResBuiltin(n) ==
  [k |-> IF Builtins[n] = "Unit" THEN "UnitTy" ELSE "PrimTy", id |-> intrapackage(n),
   status |-> "Available"]

(* GlobalTable::new; next_item is the Assigner of item ids, next_node the id of  *)
(* the next name node of the AST, log what each global and each item met.        *)
GlobalTable_new ==
  [names |-> EmptyMap,
   scope |-> [tys |-> MapInsert(EmptyMap, "Microsoft.Quantum.Core",
                                [name \in {Builtins[n] : n \in DOMAIN Builtins} |->
                                   ResBuiltin(CHOOSE n \in DOMAIN Builtins : Builtins[n] = name)]),
              terms |-> EmptyMap, namespaces |-> {}, intrinsics |-> {}],
   errors |-> <<>>, next_item |-> 1, next_node |-> 1, log |-> <<>>]

(* .entry(namespace).or_default() of a map of maps *)
EntryOrDefault(map, namespace) ==
  IF namespace \in DOMAIN map THEN map[namespace] ELSE EmptyMap

(* GlobalTable::add_external_package, one global of global::iter_package *)
add_external_global(scope, id, global) ==
  CASE global.visibility # "Public" /\ ~(global.kind = "Term" /\ global.intrinsic) -> scope
    [] global.kind = "Ty" /\ global.visibility = "Public" ->
         [scope EXCEPT !.tys = MapInsert(scope.tys, global.namespace,
            MapInsert(EntryOrDefault(scope.tys, global.namespace), global.name,
                      ResItem(ItemId(<<id>>, global.item), global.status)))]
    [] global.kind = "Term" ->
         LET terms == IF global.visibility = "Public"
                        THEN MapInsert(scope.terms, global.namespace,
                               MapInsert(EntryOrDefault(scope.terms, global.namespace),
                                         global.name,
                                         ResItem(ItemId(<<id>>, global.item), global.status)))
                        ELSE scope.terms
         IN [scope EXCEPT !.terms = terms,
                          !.intrinsics = IF global.intrinsic THEN @ \cup {global.name} ELSE @]
    [] global.kind = "Namespace" /\ global.visibility = "Public" ->
         [scope EXCEPT !.namespaces = @ \cup {global.name}]
    [] OTHER -> scope

(* GlobalTable::add_external_package: the loop over the globals of the package *)
RECURSIVE add_external_package(_, _, _)
add_external_package(t, id, globals) ==
  IF globals = <<>> THEN t
  ELSE LET scope == add_external_global(t.scope, id, Head(globals))
       IN add_external_package(
            [t EXCEPT !.scope = scope,
                      !.log = Append(t.log, [via |-> "external", namespace |-> Head(globals).namespace,
                                             item |-> Head(globals), node |-> 0,
                                             before |-> t.scope, after |-> scope,
                                             errors |-> <<>>])],
            id, Tail(globals))

(* decl_is_intrinsic: body is "Block" or the sequence of the bodies of the specs *)
decl_is_intrinsic(decl) ==
  decl.body # "Block" /\ \E n \in 1..Len(decl.specs) : decl.specs[n] = "Intrinsic"

(* bind_global_item without the intrinsics set *)
bind_global_callable_plain(scope, namespace, decl, res, span) ==
  LET terms == EntryOrDefault(scope.terms, namespace)
      occupied == decl.name \in DOMAIN terms
  IN [scope |-> [scope EXCEPT !.terms = MapInsert(scope.terms, namespace,
                   IF occupied THEN terms ELSE MapInsert(terms, decl.name, res))],
      errors |-> IF occupied
                   THEN <<[kind |-> "Duplicate", name |-> decl.name, namespace |-> namespace,
                           span |-> span]>>
                   ELSE <<>>]

(* bind_global_item, ItemKind::Callable *)
bind_global_callable(scope, namespace, decl, res, span) ==
  LET terms == EntryOrDefault(scope.terms, namespace)
      occupied == decl.name \in DOMAIN terms
      intrinsic == decl_is_intrinsic(decl)
  IN [scope |-> [scope EXCEPT !.terms = MapInsert(scope.terms, namespace,
                   IF occupied THEN terms ELSE MapInsert(terms, decl.name, res)),
                                !.intrinsics = IF intrinsic THEN @ \cup {decl.name} ELSE @],
      errors |-> (IF occupied
                    THEN <<[kind |-> "Duplicate", name |-> decl.name, namespace |-> namespace,
                            span |-> span]>>
                    ELSE <<>>)
                 \o (IF intrinsic /\ decl.name \in scope.intrinsics
                       THEN <<[kind |-> "DuplicateIntrinsic", name |-> decl.name,
                               namespace |-> "", span |-> span]>>
                       ELSE <<>>)]

(* bind_global_item that lets a later type take the place of an earlier item *)
bind_global_ty_replacing(scope, namespace, decl, res, span) ==
  LET terms == EntryOrDefault(scope.terms, namespace)
      tys == EntryOrDefault(scope.tys, namespace)
      occupied == decl.name \in DOMAIN terms \/ decl.name \in DOMAIN tys
  IN [scope |-> [scope EXCEPT
                   !.terms = MapInsert(scope.terms, namespace, MapInsert(terms, decl.name, res)),
                   !.tys = MapInsert(scope.tys, namespace, MapInsert(tys, decl.name, res))],
      errors |-> IF occupied
                   THEN <<[kind |-> "Duplicate", name |-> decl.name, namespace |-> namespace,
                           span |-> span]>>
                   ELSE <<>>]

(* bind_global_item, ItemKind::Ty *)
bind_global_ty(scope, namespace, decl, res, span) ==
  LET terms == EntryOrDefault(scope.terms, namespace)
      tys == EntryOrDefault(scope.tys, namespace)
      occupied == decl.name \in DOMAIN terms \/ decl.name \in DOMAIN tys
  IN [scope |-> [scope EXCEPT
                   !.terms = MapInsert(scope.terms, namespace,
                               IF occupied THEN terms ELSE MapInsert(terms, decl.name, res)),
                   !.tys = MapInsert(scope.tys, namespace,
                               IF occupied THEN tys ELSE MapInsert(tys, decl.name, res))],
      errors |-> IF occupied
                   THEN <<[kind |-> "Duplicate", name |-> decl.name, namespace |-> namespace,
                           span |-> span]>>
                   ELSE <<>>]

(* ItemStatus::from_attrs *)
ItemStatus_from_attrs(attrs) ==
  IF \E n \in 1..Len(attrs) : attrs[n] = "Unimplemented" THEN "Unimplemented" ELSE "Available"

(* bind_global_item: the table after the item, its name node and its errors *)
bind_global_item(t, namespace, item) ==
  IF item.kind \in {"Err", "Open"}
    THEN [t EXCEPT !.next_node = @ + 1,
                   !.log = Append(@, [via |-> "local", namespace |-> namespace, item |-> item,
                                      node |-> t.next_node, before |-> t.scope,
                                      after |-> t.scope, errors |-> <<>>])]
    ELSE LET res == ResItem(intrapackage(t.next_item), ItemStatus_from_attrs(item.attrs))
             span == Sp(t.next_node, t.next_node + 1)
             bound == IF item.kind = "Callable"
                        THEN bind_global_callable(t.scope, namespace, item, res, span)
                        ELSE bind_global_ty(t.scope, namespace, item, res, span)
         IN [t EXCEPT !.names = MapInsert(@, t.next_node, res),
                      !.scope = bound.scope,
                      !.errors = @ \o bound.errors,
                      !.next_item = @ + 1,
                      !.next_node = @ + 1,
                      !.log = Append(@, [via |-> "local", namespace |-> namespace,
                                         item |-> item, node |-> t.next_node,
                                         before |-> t.scope, after |-> bound.scope,
                                         errors |-> bound.errors])]

(* bind_global_items: the namespace, then its items in order *)
RECURSIVE bind_items(_, _, _)
bind_items(t, namespace, items) ==
  IF items = <<>> THEN t
  ELSE bind_items(bind_global_item(t, namespace, Head(items)), namespace, Tail(items))
bind_global_items(t, namespace) ==
  bind_items([t EXCEPT !.names = MapInsert(@, t.next_node,
                                   ResItem(intrapackage(t.next_item), "Available")),
                       !.scope.namespaces = @ \cup {namespace.name},
                       !.next_item = @ + 1,
                       !.next_node = @ + 1],
             namespace.name, namespace.items)

(* GlobalTable::add_local_package *)
RECURSIVE add_local_package(_, _)
add_local_package(t, nodes) ==
  IF nodes = <<>> THEN t
  ELSE add_local_package(bind_global_items(t, Head(nodes)), Tail(nodes))

MaxGlobals == 3
ItemNames == {"A", "B"}
ItemNamespaces == {"N1", "N2"}
CallableDecl(name, body, specs) ==
  [kind |-> "Callable", name |-> name, body |-> body, specs |-> specs, attrs |-> <<>>]
Items ==
  {CallableDecl(name, "Block", <<>>) : name \in ItemNames}
  \cup {CallableDecl(name, "Specs", <<"Intrinsic">>) : name \in ItemNames}
  \cup {CallableDecl("A", "Specs", <<"Impl", "Auto">>)}
  \cup {[kind |-> "Ty", name |-> name, body |-> "Block", specs |-> <<>>, attrs |-> <<>>] :
          name \in ItemNames}
  \cup {[kind |-> "Open", name |-> "N1", body |-> "Block", specs |-> <<>>, attrs |-> <<>>]}
SeqsUpTo(S, k) == UNION {[1..n -> S] : n \in 1..k}
Global(ns, name, v, kind, intrinsic, item) ==
  [namespace |-> ns, name |-> name, visibility |-> v, status |-> "Available",
   kind |-> kind, intrinsic |-> intrinsic, item |-> item]
(* The globals global::iter_package lists for one item of a package: a term for  *)
(* a callable, a type and the term of its constructor for a newtype, a namespace. *)
ExternalItems ==
  {<<Global(ns, "A", v, "Term", intrinsic, 1)>> :
     ns \in ItemNamespaces, v \in {"Public", "Internal"}, intrinsic \in BOOLEAN}
  \cup {<<Global(ns, "A", v, "Ty", FALSE, 2), Global(ns, "A", v, "Term", FALSE, 2)>> :
          ns \in ItemNamespaces, v \in {"Public", "Internal"}}
  \cup {<<Global("", ns, "Public", "Namespace", FALSE, 0)>> : ns \in ItemNamespaces}
ExternalPackages(k) ==
  {Flatten(items) : items \in SeqsUpTo(ExternalItems, k)}
AstNamespaces(k) == {[name |-> ns, items |-> items] : ns \in ItemNamespaces, items \in SeqsUpTo(Items, k)}
AstPackages(k) ==
  {<<ns>> : ns \in AstNamespaces(k)}
  \cup {<<a, b>> : a \in AstNamespaces(k - 1), b \in AstNamespaces(k - 1)}

InitGlobal == Detached("global", GlobalTable_new)

Adding == mode = "global" /\ Len(result.log) < MaxGlobals

(* GlobalTable::add_external_package *)
AddExternalPackage ==
  /\ Adding
  /\ \E id \in 1..2, globals \in ExternalPackages(MaxGlobals - Len(result.log)) :
       /\ Len(result.log) + Len(globals) <= MaxGlobals
       /\ result' = add_external_package(result, id, globals)
  /\ OnlyResult

(* GlobalTable::add_local_package *)
AddLocalPackage ==
  /\ Adding
  /\ \E nodes \in AstPackages(MaxGlobals - Len(result.log)) :
       /\ Len(result.log) + Len(nodes[1].items) + (IF Len(nodes) = 2 THEN Len(nodes[2].items) ELSE 0)
            <= MaxGlobals
       /\ result' = add_local_package(result, nodes)
  /\ OnlyResult

NextGlobal ==
  \/ AddExternalPackage
  \/ AddLocalPackage

SpecGlobal == InitGlobal /\ [][NextGlobal]_vars
---------------------------------------------------------------------------
(* Intrinsic names. *)

LogAt(n) == result.log[n]
(* The entry registers its name as an intrinsic: an intrinsic term of an         *)
(* external package, public or internal, or a local callable with an intrinsic   *)
(* specialization.                                                               *)
RegistersIntrinsic(p) ==
  \/ p.via = "external" /\ p.item.kind = "Term" /\ p.item.intrinsic
  \/ /\ p.via = "local" /\ p.item.kind = "Callable" /\ p.item.body = "Specs"
     /\ \E s \in 1..Len(p.item.specs) : p.item.specs[s] = "Intrinsic"
RegisteredBefore(n) ==
  \E m \in 1..(n - 1) : RegistersIntrinsic(LogAt(m)) /\ LogAt(m).item.name = LogAt(n).item.name
DuplicateIntrinsics(p) ==
  {e \in 1..Len(p.errors) : p.errors[e].kind = "DuplicateIntrinsic"}

(* C31: binding a local callable with an intrinsic body reports DuplicateIntrinsic, *)
(* once, with its name and the span of its name, exactly when an earlier local   *)
(* callable of any namespace or a term of an external package registered the     *)
(* same name as an intrinsic; no other item reports it.                          *)
ThmC31 ==
  mode = "global" =>
    \A n \in 1..Len(result.log) :
      LET p == LogAt(n)
      IN IF p.via = "local" /\ RegistersIntrinsic(p) /\ RegisteredBefore(n)
           THEN /\ Cardinality(DuplicateIntrinsics(p)) = 1
                /\ \A e \in DuplicateIntrinsics(p) :
                     /\ p.errors[e].name = p.item.name
                     /\ p.errors[e].span = Sp(p.node, p.node + 1)
           ELSE DuplicateIntrinsics(p) = {}
(* `operation B() : Unit { body intrinsic; }` in N1 and again in N2: the first   *)
(* reports nothing, the second DuplicateIntrinsic and no Duplicate.              *)
WitC31 ==
  /\ mode = "global" /\ Len(result.log) = 2
  /\ LogAt(1).via = "local" /\ LogAt(1).namespace = "N1"
  /\ LogAt(1).item = CallableDecl("B", "Specs", <<"Intrinsic">>)
  /\ LogAt(1).errors = <<>>
  /\ LogAt(2).via = "local" /\ LogAt(2).namespace = "N2"
  /\ LogAt(2).item = CallableDecl("B", "Specs", <<"Intrinsic">>)
  /\ Len(LogAt(2).errors) = 1
  /\ LogAt(2).errors[1].kind = "DuplicateIntrinsic"
(* An internal intrinsic of an external package, then a local intrinsic of the   *)
(* same name in another namespace.                                               *)
ExternalIntrinsic ==
  /\ mode = "global" /\ Len(result.log) = 2
  /\ LogAt(1).via = "external" /\ LogAt(1).item.visibility = "Internal"
  /\ LogAt(1).item.namespace = "N2" /\ LogAt(1).item.intrinsic
  /\ LogAt(2).via = "local" /\ LogAt(2).namespace = "N1"
  /\ Len(LogAt(2).errors) = 1 /\ LogAt(2).errors[1].kind = "DuplicateIntrinsic"
---------------------------------------------------------------------------
(* The sentinels of the continuation stack. *)

Sentinels(k) == Cardinality({i \in 1..Len(cont_stack) : cont_stack[i].k = k})
Evaluating == mode \in {"idle", "running", "done"}

(* C32: in every state of the evaluator, before, between and after the calls of  *)
(* eval, the Cont::Action entries of the continuation stack are as many as the   *)
(* actions of the action stack, the Cont::Frame entries as many as the frames of *)
(* the call stack, and the Cont::Scope entries as many as the scopes the         *)
(* environment has gained since the State was created.                           *)
ThmC32 ==
  Evaluating =>
    /\ Sentinels("Action") = Len(action_stack)
    /\ Sentinels("Frame") = Len(call_stack)
    /\ Sentinels("Scope") = Len(env) - Len(EnvDefault)
(* An error raised inside a call, with actions, a frame and scopes pending. *)
WitC32 ==
  /\ mode = "done" /\ result.k = "Err"
  /\ Len(call_stack) >= 1 /\ Len(action_stack) >= 1 /\ Len(env) >= 3
  /\ Sentinels("Action") = Len(action_stack)
(* A yield at a statement inside a call. *)
YieldInCall ==
  /\ mode = "idle" /\ result.k \in {"BreakpointHit", "StepIn"}
  /\ Len(call_stack) >= 1 /\ Len(action_stack) >= 1
(* A return that has dropped actions and left scopes on its way to the frame. *)
ReturnUnwinds ==
  /\ mode = "running" /\ last.k = "Action" /\ last.act.a = "Return"
  /\ Len(last.pre.action_stack) > Len(action_stack)
  /\ Len(last.pre.env) > Len(env) + 1
  /\ Len(last.pre.call_stack) > Len(call_stack)
---------------------------------------------------------------------------
(* The values of a while expression. *)

(* The loop of Action::While(cond, block) has just finished: the action found    *)
(* false on the value stack and pushed Unit.                                     *)
WhileFinished ==
  /\ Evaluating /\ last.k = "Action" /\ last.act.a = "While"
  /\ ~Top(last.pre.vals).v
(* The dispatch of the while expression the finished loop belongs to: the latest *)
(* one of its package with this condition and block.                             *)
IsDispatchOf(i, act) ==
  /\ trace[i][1] = package
  /\ get_expr(package, trace[i][2]).kind = "While"
  /\ get_expr(package, trace[i][2]).cond = act.cond
  /\ get_expr(package, trace[i][2]).block = act.block
WhileDispatch ==
  CHOOSE i \in 1..Len(trace) :
    /\ IsDispatchOf(i, last.act)
    /\ \A j \in (i + 1)..Len(trace) : ~IsDispatchOf(j, last.act)
(* The iterations of the finished loop: the dispatches of its condition since    *)
(* its own dispatch, less the last one.                                          *)
Iterations ==
  Cardinality({j \in (WhileDispatch + 1)..Len(trace) :
                 trace[j][1] = package /\ trace[j][2] = last.act.cond}) - 1

(* C33: when a while loop finishes, the value stack is one entry, Unit, longer   *)
(* than when the while expression was dispatched, whatever the number of         *)
(* iterations.                                                                   *)
CexC33 ==
  WhileFinished =>
    /\ Len(vals) = trace[WhileDispatch][3] + 1
    /\ Top(vals) = UnitV
(* What the loop leaves: Unit on top, and below it one Unit for each iteration,  *)
(* above the values that were there when the expression was dispatched.          *)
WhileLeavesUnits ==
  WhileFinished =>
    /\ Len(vals) = trace[WhileDispatch][3] + Iterations + 1
    /\ \A n \in (trace[WhileDispatch][3] + 1)..Len(vals) : vals[n] = UnitV
TwoIterations == WhileFinished /\ Iterations = 2
NoIteration == WhileFinished /\ Iterations = 0
---------------------------------------------------------------------------
(* Breakpoints. *)

(* The last step dispatched a statement of the breakpoint list. *)
BreakpointDispatched == Evaluating /\ last.k = "Stmt" /\ IsBreakpoint(last.id)
(* eval has returned BreakpointHit and has not been called again. *)
AtBreakpoint == Evaluating /\ mode = "idle" /\ result.k = "BreakpointHit"

(* C34: the dispatch of a statement of the breakpoint list ends the call of eval *)
(* with BreakpointHit for that statement, whatever the step action and the depth *)
(* of the call stack, with the statement scheduled and its continuation gone     *)
(* from the continuation stack; the next call of eval starts from exactly that   *)
(* state, so the statement is run once and this dispatch is not reported again.  *)
ThmC34 ==
  /\ [](BreakpointDispatched =>
          /\ mode = "idle"
          /\ result = [k |-> "BreakpointHit", bp |-> last.id]
          /\ St = cont_stmt(last.pre, last.id))
  /\ [][AtBreakpoint =>
          /\ mode' = "running"
          /\ UNCHANGED <<cont_stack, action_stack, vals, package, call_stack, current_span,
                         env, out>>]_vars
(* A breakpoint hit inside a call by a call of eval with StepAction::Out from    *)
(* the top level, which would not stop there otherwise.                          *)
WitC34 ==
  /\ AtBreakpoint /\ last.k = "Stmt" /\ result.bp = last.id
  /\ step = "Out" /\ current_frame = 0 /\ Len(call_stack) >= 1
(* A breakpoint hit at a statement of generated code under Continue. *)
BreakpointInGenerated ==
  /\ AtBreakpoint /\ last.k = "Stmt" /\ step = "Continue" /\ current_span = SpanDefault
(* The statement of a breakpoint being run after the call of eval that followed  *)
(* its report.                                                                   *)
ResumedAfterBreakpoint ==
  /\ mode = "running" /\ last.k = "Expr" /\ last.pre.cont_stack # <<>>
  /\ result.k = "BreakpointHit"
---------------------------------------------------------------------------
(* The arguments of a call on their own: a callable or closure value with its    *)
(* functors applied, and an argument of the shape its specialization takes.      *)

MaxCtlBind == 2
CtlArrays == {<<>>, <<IntV(1)>>, <<IntV(2), IntV(3)>>}
(* (c_0, (c_1, (... rest))) for the control arrays cs, innermost last *)
RECURSIVE Controlled(_, _)
Controlled(cs, rest) ==
  IF cs = <<>> THEN rest ELSE TupV(<<ArrV(Len(cs), Head(cs)), Controlled(Tail(cs), rest)>>)
CalleeItems == {4, 6}
(* What the input of the declaration stands for: rest, or for a closure the      *)
(* tuple of its captured values followed by rest.                                *)
InputValue(in) == IF in.fixed = <<>> THEN in.rest ELSE TupV(in.fixed[1] \o <<in.rest>>)
(* Lambda takes a pair; Op's input is a single name that takes any value. *)
CallInputs ==
  {in \in [item : CalleeItems, adjoint : BOOLEAN,
           cs : UNION {[1..n -> CtlArrays] : n \in 0..MaxCtlBind},
           rest : {IntV(7), TupV(<<IntV(8), IntV(9)>>)},
           fixed : {<<>>, <<<<IntV(5)>>>>, <<<<IntV(5), IntV(6)>>>>},
           recursive : BOOLEAN] :
     in.item = 6 => InputValue(in).t = "Tuple" /\ Len(InputValue(in).v) = 2}
CalleeValue(in) ==
  LET id == [package |-> 0, item |-> in.item]
      functor == [adjoint |-> in.adjoint, controlled |-> Len(in.cs)]
  IN IF in.fixed = <<>> THEN GlobalV(id, functor) ELSE ClosureV(in.fixed[1], id, functor)
(* The State at Action::Call: the callee and the argument on the value stack; in *)
(* a recursive call the scope of the caller binds the callee's variables already. *)
CallState(in) ==
  LET S == [StateNew(Programs[1]) EXCEPT !.cont_stack = <<>>,
                                         !.vals = <<CalleeValue(in), Controlled(in.cs, in.rest)>>]
      decl == get_global([package |-> 0, item |-> in.item])[1]
  IN IF in.recursive
       THEN bind_value(push_scope(push_frame(S, [package |-> 0, item |-> in.item],
                                             FunctorAppDefault)),
                       decl.input, IF in.item = 4 THEN IntV(0) ELSE TupV(<<IntV(0), IntV(0)>>),
                       "Mutable")
       ELSE S

InitCall ==
  \E in \in CallInputs :
    Detached("call", [k |-> "Call", in |-> in, pre |-> CallState(in), post |-> <<>>])

(* Action::Call: eval_call *)
EvalCall ==
  /\ mode = "call"
  /\ result.post = <<>>
  /\ result' = [result EXCEPT !.post = <<eval_call(result.pre, SpanDefault, SpanDefault)>>]
  /\ OnlyResult

NextCall == EvalCall

SpecCall == InitCall /\ [][NextCall]_vars

(* The call has been made. *)
Called == mode = "call" /\ result.post # <<>>
CalleeDecl == get_global([package |-> 0, item |-> result.in.item])[1]
(* The pattern of the specialization that runs. *)
SpecPatOf(in) ==
  LET decl == get_global([package |-> 0, item |-> in.item])[1]
  IN IF in.adjoint THEN decl.ctl_adj[1].input[1] ELSE decl.ctl[1].input[1]
(* The variables a value gives to a pattern, as the set of [id, value]. *)
RECURSIVE Bindings(_, _)
Bindings(pat_id, val) ==
  LET pat == get_pat(0, pat_id)
  IN CASE pat.kind = "Bind" -> {[id |-> pat.id, value |-> val]}
       [] pat.kind = "Discard" -> {}
       [] pat.kind = "Tuple" ->
            UNION {Bindings(pat.pats[i], val.v[i]) :
                     i \in 1..(IF Len(pat.pats) < Len(val.v) THEN Len(pat.pats) ELSE Len(val.v))}
(* The scope eval_call pushes for the callee; the scope of the block of the      *)
(* specialization comes above it.                                                *)
NewScope == result.post[1].env[Len(result.pre.env) + 1]
BoundIn(scope) == {[id |-> scope.bindings[i].id, value |-> [scope.bindings[i].value EXCEPT !.rc = 0]] :
                     i \in 1..Len(scope.bindings)}

(* C35: a call of a specialization with n >= 1 controls and the argument         *)
(* (c_0, (c_1, (... (c_{n-1}, rest)))) binds, in the scope the call pushes for   *)
(* the callee (below the scope of the block of the specialization),              *)
(* the pattern of the specialization to the array c_0 ++ ... ++ c_{n-1} and the  *)
(* input of the declaration to rest, or for a closure to the tuple of its        *)
(* captured values in their order followed by rest; every binding is immutable   *)
(* and the scopes of the caller are as they were.                                *)
ThmC35 ==
  Called /\ Len(result.in.cs) >= 1 =>
    LET in == result.in
        post == result.post[1]
    IN /\ post.err = <<>>
       /\ Len(post.env) = Len(result.pre.env) + 2
       /\ Top(post.env).bindings = <<>>
       /\ SubSeq(post.env, 1, Len(result.pre.env)) = result.pre.env
       /\ NewScope.frame_id = Len(post.call_stack)
       /\ BoundIn(NewScope) =
            {[id |-> get_pat(0, SpecPatOf(in)).id, value |-> ArrV(0, Flatten(in.cs))]}
            \cup Bindings(CalleeDecl.input, InputValue(in))
       /\ \A i \in 1..Len(NewScope.bindings) : NewScope.bindings[i].mutability = "Immutable"
(* Controlled Controlled on a closure over Lambda with one captured value:       *)
(* ([1], ([2, 3], 7)) gives cs = [1, 2, 3], k = 5 and y = 7.                      *)
WitC35 ==
  /\ Called
  /\ result.in.item = 6 /\ ~result.in.adjoint /\ result.in.recursive
  /\ result.in.cs = <<<<IntV(1)>>, <<IntV(2), IntV(3)>>>>
  /\ result.in.fixed = <<<<IntV(5)>>>> /\ result.in.rest = IntV(7)
  /\ BoundIn(NewScope) =
       {[id |-> 16, value |-> ArrV(0, <<IntV(1), IntV(2), IntV(3)>>)],
        [id |-> 14, value |-> IntV(5)], [id |-> 15, value |-> IntV(7)]}
---------------------------------------------------------------------------
(* Locals::get_all_at_offset on its own: the scopes the resolver has       *)
(* recorded for a source text, with their spans and with the offset at     *)
(* which each variable becomes visible, and the locals listed for an       *)
(* offset of that text.                                                    *)

MaxOffset == 7
MaxSpanned == 3
MaxBound == 3

LocalNames == {"x", "y"}
TyParamNames == {"T"}

(* Scope, as push_scope makes it: span, kind and the empty maps. *)
SpannedScope(lo, hi, kind) ==
  [span |-> [lo |-> lo, hi |-> hi], kind |-> kind,
   terms |-> EmptyMap, vars |-> EmptyMap, ty_vars |-> EmptyMap]

Local(name, kind, id) == [name |-> name, kind |-> kind, id |-> id]

(* The orders in which a map may yield its entries: the program does not fix one. *)
Orders(S) == {o \in [1..Cardinality(S) -> S] : \A n \in S : \E i \in DOMAIN o : o[i] = n}
IterNames(map, order) == SelectSeq(order, LAMBDA n : n \in DOMAIN map)

RECURSIVE LocalsOf(_, _, _, _)
LocalsOf(map, names, kind, valid) ==
  IF names = <<>> THEN <<>>
  ELSE (IF valid[Head(names)] THEN <<Local(Head(names), kind, map[Head(names)])>> ELSE <<>>)
       \o LocalsOf(map, Tail(names), kind, valid)

(* get_scope_locals: the variables visible at the offset, the type parameters, *)
(* then the items; ord gives the order of the entries of vars and of terms.    *)
get_scope_locals(scope, offset, with_vars, ord) ==
  (IF with_vars
     THEN LocalsOf([n \in DOMAIN scope.vars |-> scope.vars[n].id],
                   IterNames(scope.vars, ord.vars), "Var",
                   [n \in DOMAIN scope.vars |-> offset >= scope.vars[n].valid_at])
          \o LocalsOf(scope.ty_vars, IterNames(scope.ty_vars, ord.ty_vars), "TyParam",
                      [n \in DOMAIN scope.ty_vars |-> TRUE])
     ELSE <<>>)
  \o LocalsOf(scope.terms, IterNames(scope.terms, ord.terms), "Item",
              [n \in DOMAIN scope.terms |-> TRUE])

(* Vec::dedup_by with the names compared: of a run of consecutive entries with *)
(* one name the first stays.                                                   *)
RECURSIVE dedup_by(_)
dedup_by(all) ==
  IF Len(all) <= 1 THEN all
  ELSE LET rest == dedup_by(Tail(all))
       IN IF Head(all).name = Head(Tail(all)).name
            THEN <<Head(all)>> \o Tail(rest)
            ELSE <<Head(all)>> \o rest

(* dedup_by made to drop every later entry of a name already listed. *)
RECURSIVE dedup_all(_)
dedup_all(all) ==
  IF Len(all) <= 1 THEN all
  ELSE <<Head(all)>> \o dedup_all(SelectSeq(Tail(all), LAMBDA l : l.name # Head(all).name))

(* for_each_scope_at_offset with the closure of get_all_at_offset: the scopes *)
(* from the last pushed to the first, those whose span holds the offset.      *)
RECURSIVE for_each_scope_at_offset(_, _, _, _, _)
for_each_scope_at_offset(scopes, i, offset, with_vars, ords) ==
  IF i = 0 THEN <<>>
  ELSE LET scope == scopes[i]
       IN IF scope.span.lo < offset /\ scope.span.hi > offset
            THEN get_scope_locals(scope, offset, with_vars, ords[i])
                 \o for_each_scope_at_offset(scopes, i - 1, offset,
                                             with_vars /\ scope.kind # "Callable", ords)
            ELSE for_each_scope_at_offset(scopes, i - 1, offset, with_vars, ords)

get_all_at_offset(scopes, offset, ords) ==
  dedup_by(for_each_scope_at_offset(scopes, Len(scopes), offset, TRUE, ords))

(* The resolver's pass over a text, as far as Locals sees it: scopes pushed  *)
(* with their spans as the pass enters them, names bound in the innermost    *)
(* open scope, scopes popped; at is the offset the pass has reached.         *)
LocalsState(scopes, chain, at, next, query) ==
  [k |-> "Locals", scopes |-> scopes, chain |-> chain, at |-> at, next |-> next,
   query |-> query]

InitLocals == Detached("locals", LocalsState(<<>>, <<>>, 0, 1, <<>>))

Walking == mode = "locals" /\ result.query = <<>>
CurrentScope == result.scopes[result.chain[Len(result.chain)]]
(* with_scope, first half: push_scope(span, kind). The span lies inside the *)
(* enclosing scope's and starts past where the pass is.                     *)
LocalsPushScope ==
  /\ Walking
  /\ Len(result.scopes) < MaxSpanned
  /\ \E kind \in (IF result.chain = <<>> THEN {"Namespace"} ELSE {"Callable", "Block"}),
        hi \in (result.at + 3)..MaxOffset :
       LET lo == IF result.chain = <<>> THEN result.at ELSE result.at + 1
       IN /\ result.chain # <<>> => hi < CurrentScope.span.hi
          /\ result' = [result EXCEPT
                          !.scopes = Append(@, SpannedScope(lo, hi, kind)),
                          !.chain = Append(@, Len(result.scopes) + 1),
                          !.at = lo]
  /\ OnlyResult

(* with_pat and visit_callable_decl: bind_pat with the names valid from the *)
(* start of the scope (span.lo, or the end of the input pattern).           *)
LocalsBindParam ==
  /\ Walking /\ result.chain # <<>>
  /\ result.next <= MaxBound
  /\ CurrentScope.kind # "Namespace"
  /\ result.at = CurrentScope.span.lo
  /\ \E name \in LocalNames :
       LET scope == CurrentScope
           s == result.chain[Len(result.chain)]
       IN result' = [result EXCEPT
                       !.scopes[s].vars =
                          MapInsert(scope.vars, name,
                                    [valid_at |-> scope.span.lo, id |-> result.next]),
                       !.next = @ + 1]
  /\ OnlyResult

(* bind_type_parameters, in the scope of a callable. *)
LocalsBindTyParam ==
  /\ Walking /\ result.chain # <<>>
  /\ result.next <= MaxBound
  /\ CurrentScope.kind = "Callable"
  /\ result.at = CurrentScope.span.lo
  /\ \E name \in TyParamNames :
       LET s == result.chain[Len(result.chain)]
       IN result' = [result EXCEPT
                       !.scopes[s].ty_vars = MapInsert(CurrentScope.ty_vars, name, result.next),
                       !.next = @ + 1]
  /\ OnlyResult

(* visit_block: bind_local_item for the items of the block, before its *)
(* statements are walked.                                              *)
LocalsBindItem ==
  /\ Walking /\ result.chain # <<>>
  /\ result.next <= MaxBound
  /\ CurrentScope.kind = "Block"
  /\ result.at = CurrentScope.span.lo
  /\ \E name \in LocalNames :
       LET s == result.chain[Len(result.chain)]
       IN result' = [result EXCEPT
                       !.scopes[s].terms = MapInsert(CurrentScope.terms, name, result.next),
                       !.next = @ + 1]
  /\ OnlyResult

(* visit_stmt for a local declaration: the pass moves over the statement and *)
(* bind_pat makes the name valid from the statement's end.                   *)
LocalsBindLocal ==
  /\ Walking /\ result.chain # <<>>
  /\ result.next <= MaxBound
  /\ CurrentScope.kind = "Block"
  /\ result.at + 1 < CurrentScope.span.hi
  /\ \E name \in LocalNames :
       LET s == result.chain[Len(result.chain)]
       IN result' = [result EXCEPT
                       !.scopes[s].vars =
                          MapInsert(CurrentScope.vars, name,
                                    [valid_at |-> result.at + 1, id |-> result.next]),
                       !.next = @ + 1,
                       !.at = @ + 1]
  /\ OnlyResult

(* with_scope, second half: pop_scope; the pass is at the end of the span. *)
LocalsPopScope ==
  /\ Walking /\ result.chain # <<>>
  /\ result' = [result EXCEPT !.chain = SubSeq(@, 1, Len(@) - 1),
                              !.at = CurrentScope.span.hi]
  /\ OnlyResult

ScopeOrders ==
  [vars : Orders(LocalNames), ty_vars : Orders(TyParamNames), terms : Orders(LocalNames)]

(* get_all_at_offset(offset) on the Locals of a finished pass. *)
GetAllAtOffset ==
  /\ Walking /\ result.chain = <<>> /\ result.scopes # <<>>
  /\ \E offset \in 0..MaxOffset, ords \in [1..Len(result.scopes) -> ScopeOrders] :
       result' = [result EXCEPT
                    !.query = <<[offset |-> offset,
                                 all |-> get_all_at_offset(result.scopes, offset, ords)]>>]
  /\ OnlyResult

NextLocals ==
  \/ LocalsPushScope
  \/ LocalsBindParam
  \/ LocalsBindTyParam
  \/ LocalsBindItem
  \/ LocalsBindLocal
  \/ LocalsPopScope
  \/ GetAllAtOffset
SpecLocals == InitLocals /\ [][NextLocals]_vars

Listed == mode = "locals" /\ result.query # <<>>
AllLocals == result.query[1].all

(* C36: no two entries of what get_all_at_offset returns share a name. *)
CexC36 ==
  Listed => \A i, j \in 1..Len(AllLocals) : AllLocals[i].name = AllLocals[j].name => i = j

(* What the deduplication does give: no two neighbouring entries share a name. *)
NeighboursDiffer ==
  Listed => \A i \in 1..(Len(AllLocals) - 1) : AllLocals[i].name # AllLocals[i + 1].name

(* A name listed twice: for an inner scope and, past another local, for an outer one. *)
ShadowedListed ==
  /\ Listed
  /\ Len(AllLocals) = 3
  /\ AllLocals[1].name = AllLocals[3].name
  /\ AllLocals[1].kind = "Var" /\ AllLocals[3].kind = "Var"
---------------------------------------------------------------------------
(* The function eval: State::new, the push of the entry, and one call of    *)
(* State::eval with no breakpoints and StepAction::Continue, which runs the *)
(* loop until the continuations are used up or an error is raised.          *)

(* One iteration of the loop of State::eval on a State. *)
eval_iteration(S) ==
  LET cont == Top(S.cont_stack)
      P == [S EXCEPT !.cont_stack = Pop(@)]
  IN CASE cont.k = "Action" ->
            cont_action([P EXCEPT !.action_stack = Pop(@)], Top(S.action_stack))
       [] cont.k = "Expr" -> cont_expr(P, cont.v)
       [] cont.k = "Frame" -> leave_frame(P, cont.v)
       [] cont.k = "Scope" -> [P EXCEPT !.env = env_leave_scope(@)]
       [] cont.k = "Stmt" -> cont_stmt(P, cont.v)

(* What a run leaves: the value or the error, the environment, the effects. *)
RunResult(res, S) == [result |-> res, env |-> S.env, out |-> S.out]

RECURSIVE eval_loop(_)
eval_loop(S) ==
  IF S.err # <<>>
    THEN RunResult([k |-> "Err", err |-> S.err[1], frames |-> get_stack_frames(S)], S)
  ELSE IF S.cont_stack = <<>>
    THEN RunResult(IF S.vals = <<>> THEN [k |-> "Panic"]
                   ELSE [k |-> "Return", value |-> Top(S.vals)], S)
  ELSE eval_loop(eval_iteration(S))

eval(entry) == eval_loop(StateNew(entry))

Finished == mode = "done" /\ Evaluating

(* C37: however the run was stepped (any step actions, any breakpoints, any number *)
(* of calls of State::eval), when it is over the value or error, the environment   *)
(* and the effects are those of eval, the single run with Continue and no          *)
(* breakpoints, on the same program.                                               *)
ThmC37 ==
  Finished => RunResult(result, St) = eval(Programs[prog])

(* A run that was resumed inside a call and has returned a value. *)
WitC37 ==
  /\ Finished
  /\ current_frame > 0
  /\ step # "Continue"
  /\ result.k = "Return"

(* A run that was resumed inside a call and has ended in an error. *)
SteppedToError ==
  /\ Finished
  /\ current_frame > 0
  /\ result.k = "Err"

(* A run that stopped at a breakpoint on its way and has left effects. *)
SteppedWithEffects ==
  /\ Finished
  /\ breakpoints # <<>>
  /\ out # <<>>
---------------------------------------------------------------------------
(* A failing `set a w/= index <- update` and the array of `a`. *)

UpdBefore == env_get(env, UpdTarget.var)[1].value
FailedInPlace == mode = "update" /\ result.in_place # <<>> /\ ~result.in_place[1].ok
FailedCopying == mode = "update" /\ result.copying # <<>> /\ ~result.copying[1].ok

(* C38: when the assignment raises an error, by either path, the variable holds *)
(* the array it held before the statement.                                     *)
CexC38 ==
  /\ FailedInPlace => result.in_place[1].value.v = UpdBefore.v
  /\ FailedCopying => result.copying[1].value.v = UpdBefore.v

(* What holds: the copying path leaves the variable alone when it fails, and so *)
(* does the in-place path for a single index, for a zero step, and for a range  *)
(* whose first position already fails.                                          *)
FailureKeepsTarget ==
  /\ FailedCopying => result.copying[1].value.v = UpdBefore.v
  /\ FailedInPlace /\ (result.index.t = "Int" \/ result.in_place[1].kind = "RangeStepZero")
       => result.in_place[1].value.v = UpdBefore.v

(* The in-place path has failed on a range with part of the update written. *)
PartlyWritten ==
  /\ FailedInPlace
  /\ result.index.t = "Range"
  /\ Len(result.in_place[1].value.v) = Len(UpdBefore.v)
  /\ \E i \in 1..Len(UpdBefore.v) : result.in_place[1].value.v[i] # UpdBefore.v[i]

(* Both paths have failed and the variable is as it was. *)
FailedUnchanged ==
  /\ FailedInPlace /\ FailedCopying
  /\ result.in_place[1].value.v = UpdBefore.v
---------------------------------------------------------------------------
(* Duplicate global declarations. *)

Declares(p) == p.via = "local" /\ p.item.kind \in {"Callable", "Ty"}
(* The name of the declaration is bound in its namespace before it: as a term,   *)
(* or for a type as a term or as a type.                                         *)
AlreadyBound(p) ==
  \/ GlobalScope_get(p.before, "Term", p.namespace, p.item.name) # <<>>
  \/ p.item.kind = "Ty" /\ GlobalScope_get(p.before, "Ty", p.namespace, p.item.name) # <<>>
Duplicates(p) == {e \in 1..Len(p.errors) : p.errors[e].kind = "Duplicate"}
LocalAfter(n) == \A m \in (n + 1)..Len(result.log) : LogAt(m).via = "local"

(* C40: a local callable or type whose name is bound in its namespace already    *)
(* reports Duplicate once, with its name, its namespace and the span of its      *)
(* name, and leaves what the name stands for in the namespace, as a term and as  *)
(* a type, as it was; what it stood for stays so through the local declarations  *)
(* that follow.                                                                  *)
(* A declaration of a name that is not bound reports no Duplicate and makes the  *)
(* name stand for its own item.                                                  *)
ThmC40 ==
  mode = "global" =>
    \A n \in 1..Len(result.log) :
      LET p == LogAt(n)
      IN Declares(p) =>
           IF AlreadyBound(p)
             THEN /\ Cardinality(Duplicates(p)) = 1
                  /\ \A e \in Duplicates(p) :
                       /\ p.errors[e].name = p.item.name
                       /\ p.errors[e].namespace = p.namespace
                       /\ p.errors[e].span = Sp(p.node, p.node + 1)
                  /\ \A kind \in {"Term", "Ty"} :
                       /\ GlobalScope_get(p.after, kind, p.namespace, p.item.name)
                            = GlobalScope_get(p.before, kind, p.namespace, p.item.name)
                       /\ LocalAfter(n)
                            /\ GlobalScope_get(p.before, kind, p.namespace, p.item.name) # <<>> =>
                            GlobalScope_get(result.scope, kind, p.namespace, p.item.name)
                              = GlobalScope_get(p.before, kind, p.namespace, p.item.name)
             ELSE /\ Duplicates(p) = {}
                  /\ GlobalScope_get(p.after, "Term", p.namespace, p.item.name)
                       = <<result.names[p.node]>>
                  /\ GlobalScope_get(p.after, "Ty", p.namespace, p.item.name)
                       = IF p.item.kind = "Ty" THEN <<result.names[p.node]>>
                         ELSE GlobalScope_get(p.before, "Ty", p.namespace, p.item.name)
(* `newtype B`, `operation B` and `newtype B` again in N1: two Duplicate errors, *)
(* and B is still the first newtype, as a term and as a type.                    *)
WitC40 ==
  /\ mode = "global" /\ Len(result.log) = 3
  /\ \A n \in 1..3 : LogAt(n).via = "local" /\ LogAt(n).namespace = "N1" /\ LogAt(n).item.name = "B"
  /\ LogAt(1).item.kind = "Ty" /\ LogAt(2).item.kind = "Callable" /\ LogAt(3).item.kind = "Ty"
  /\ Len(result.errors) = 2
  /\ result.errors[1].kind = "Duplicate" /\ result.errors[2].kind = "Duplicate"
  /\ GlobalScope_get(result.scope, "Term", "N1", "B") = <<result.names[LogAt(1).node]>>
  /\ GlobalScope_get(result.scope, "Ty", "N1", "B") = <<result.names[LogAt(1).node]>>
  /\ result.names[LogAt(3).node] # result.names[LogAt(1).node]
(* A local callable whose name a public term of an external package holds. *)
DuplicateOfExternal ==
  /\ mode = "global" /\ Len(result.log) = 2
  /\ LogAt(1).via = "external" /\ LogAt(2).via = "local" /\ LogAt(2).namespace = "N1"
  /\ Duplicates(LogAt(2)) # {}
  /\ GlobalScope_get(result.scope, "Term", "N1", "A") # <<>>
  /\ GlobalScope_get(result.scope, "Term", "N1", "A")[1].id.package # <<>>
---------------------------------------------------------------------------
(* Local declarations in the block of a callable: `let p = e;` and the      *)
(* qubit allocation without a block, each visited as a whole (the paths of  *)
(* its expression, then its pattern), and expression statements between.    *)

MaxLets == 2
MaxLetOcc == 3

LetNames == {"a", "b"}
LetPatterns ==
  {PatBind("a"), PatBind("b"), PatTuple(<<PatBind("a"), PatBind("b")>>),
   PatTuple(<<PatBind("a"), PatParen(PatBind("a"))>>)}
(* The paths of the expression of a statement, in the order they are visited. *)
LetExprs ==
  {<<>>} \cup {<<ExprPath("", n)>> : n \in LetNames}
         \cup {<<ExprPath("", n), ExprPath("", m)>> : n \in LetNames, m \in LetNames}

(* walk_stmt, walk_qubit_init: the expressions of the statement are visited. *)
RECURSIVE visit_exprs(_, _)
visit_exprs(r, exprs) ==
  IF exprs = <<>> THEN r ELSE visit_exprs(visit_expr(r, Head(exprs)), Tail(exprs))

(* With::visit_stmt as it would be with the pattern bound before the walk. *)
visit_stmt_bind_first(r, pat, exprs) == visit_exprs(bind_pat(r, pat), exprs)

(* With::visit_stmt for StmtKind::Local, and for StmtKind::Qubit without a block: *)
(* the walk, then bind_pat.                                                       *)
visit_stmt(r, pat, exprs) == bind_pat(visit_exprs(r, exprs), pat)

(* The statement remembered: the resolver before it, the occurrences of its  *)
(* expression (occ_from + 1 .. occ_to), the NodeId of the first name of its  *)
(* pattern.                                                                  *)
LoggedStmt(r0, via, pat, exprs, r1) ==
  [r1 EXCEPT !.pats = Append(r1.pats,
     [via |-> via, pat |-> pat, before |-> r0,
      occ_from |-> Len(r0.occ), occ_to |-> Len(r0.occ) + Len(exprs),
      first_id |-> visit_exprs(r0, exprs).next])]

LetPrograms == {Prog(<<>>, param, <<>>, item, FALSE) : param \in BOOLEAN, item \in BOOLEAN}
LetGlobals ==
  {GlobalScopeFrom(PathNamespaces, decls) : decls \in
     {<<"None", "None", "None", "None", "None", "None", "None">>,
      <<"Callable", "None", "None", "None", "None", "None", "None">>}}

InitLet ==
  \E globals \in LetGlobals, decl \in LetPrograms :
    Detached("let", [Entered(globals, <<>>, decl) EXCEPT !.binds = 0])

InBlock == mode = "let"

(* With::visit_stmt (StmtKind::Local) *)
VisitLet ==
  /\ InBlock
  /\ Len(result.pats) < MaxLets
  /\ \E pat \in LetPatterns, exprs \in LetExprs :
       /\ Len(result.occ) + Len(exprs) <= MaxLetOcc
       /\ result' = LoggedStmt(result, "local", pat, exprs, visit_stmt(result, pat, exprs))
  /\ OnlyResult

(* With::visit_stmt (StmtKind::Qubit, no block); the expression is the size of *)
(* an array of qubits.                                                         *)
VisitQubit ==
  /\ InBlock
  /\ Len(result.pats) < MaxLets
  /\ \E pat \in LetPatterns, exprs \in {e \in LetExprs : Len(e) <= 1} :
       /\ Len(result.occ) + Len(exprs) <= MaxLetOcc
       /\ result' = LoggedStmt(result, "qubit", pat, exprs, visit_stmt(result, pat, exprs))
  /\ OnlyResult

(* With::visit_stmt (StmtKind::Expr, StmtKind::Semi) with a path for expression *)
VisitExprStmt ==
  /\ InBlock
  /\ Len(result.occ) < MaxLetOcc
  /\ \E name \in LetNames : result' = visit_expr(result, ExprPath("", name))
  /\ OnlyResult

NextLet ==
  \/ VisitLet
  \/ VisitQubit
  \/ VisitExprStmt
SpecLet == InitLet /\ [][NextLet]_vars

(* The NodeId the statement s gives the name: that of the last place of its *)
(* pattern where the name is written.                                       *)
BoundId(s, name) ==
  LET names == PatNames(s.pat)
      k == CHOOSE k \in 1..Len(names) :
             names[k] = name /\ \A j \in (k + 1)..Len(names) : names[j] # name
  IN s.first_id + k - 1
Binds(s, name) == \E k \in 1..Len(PatNames(s.pat)) : PatNames(s.pat)[k] = name
BoundIds(s) == {s.first_id + k - 1 : k \in 1..Len(PatNames(s.pat))}

(* What the occurrence would resolve to in the scopes as they were before s. *)
ResolvedBefore(s, o) ==
  LET got == resolve("Term", s.before.globals,
                     get_scopes(s.before.locals, s.before.curr_scope_chain), o.name, "")
  IN IF got.ok THEN <<got.res>> ELSE <<>>

(* The statements that were over when the n-th occurrence was met and bind its name. *)
BindersBefore(n) ==
  {k \in 1..Len(result.pats) :
     result.pats[k].occ_to < n /\ Binds(result.pats[k], result.occ[n].name.name)}

(* C39: an occurrence in the expression of a local declaration or of a        *)
(* block-less qubit allocation resolves as it would before the statement      *)
(* (to the declaration visible until then, or not at all) and never to a name *)
(* the statement binds; an occurrence after the statement, of a name its      *)
(* pattern binds, resolves to that binding as long as no later statement of   *)
(* the block binds the name again.                                            *)
ThmC39 ==
  mode = "let" =>
    /\ \A k \in 1..Len(result.pats) :
         LET s == result.pats[k]
         IN \A n \in (s.occ_from + 1)..s.occ_to :
              /\ ResolvedAt(result.occ[n]) = ResolvedBefore(s, result.occ[n])
              /\ \A id \in BoundIds(s) : ResolvedAt(result.occ[n]) # <<ResLocal(id)>>
    /\ \A n \in 1..Len(result.occ) :
         BindersBefore(n) # {} =>
           LET k == CHOOSE k \in BindersBefore(n) : \A j \in BindersBefore(n) : j <= k
           IN ResolvedAt(result.occ[n])
                = <<ResLocal(BoundId(result.pats[k], result.occ[n].name.name))>>

(* `let a = a;` after a parameter a, and a after it: the a of the expression is *)
(* the parameter, the a after the statement is the new variable.                *)
WitC39 ==
  /\ mode = "let"
  /\ Len(result.pats) = 1 /\ Len(result.occ) = 2
  /\ result.pats[1].via = "local"
  /\ result.pats[1].occ_from = 0 /\ result.pats[1].occ_to = 1
  /\ Binds(result.pats[1], "a")
  /\ result.occ[1].name.name = "a" /\ result.occ[2].name.name = "a"
  /\ ResolvedAt(result.occ[1]) # <<>>
  /\ ResolvedAt(result.occ[1])[1].k = "Local"
  /\ ResolvedAt(result.occ[2]) = <<ResLocal(BoundId(result.pats[1], "a"))>>
  /\ ResolvedAt(result.occ[1]) # ResolvedAt(result.occ[2])

(* A name in the expression of the qubit allocation that binds it, with no *)
(* declaration before: NotFound.                                           *)
UnboundInInitializer ==
  /\ mode = "let"
  /\ Len(result.pats) = 1
  /\ result.pats[1].via = "qubit"
  /\ result.pats[1].occ_to = 1 /\ Len(result.occ) = 1
  /\ Binds(result.pats[1], result.occ[1].name.name)
  /\ ResolvedAt(result.occ[1]) = <<>>
  /\ Len(result.errors) = 1 /\ result.errors[1].kind = "NotFound"

(* A second declaration of the name: occurrences after it are the second variable. *)
Rebound ==
  /\ mode = "let"
  /\ Len(result.pats) = 2 /\ Len(result.occ) = 2
  /\ BindersBefore(1) = {1} /\ BindersBefore(2) = {1, 2}
====
